---- MODULE Spec2Model ----
(***************************************************************************)
(* Model of the border0 connector core: the reconciler tick                *)
(* (ConnectorCore.HandleUpdates / SocketsCoreHandler), the event           *)
(* dispatcher (TunnelConnectJob) and the connect tasks (TunnelConnnect)    *)
(* over the tunnel registry, the event channel and the control plane.      *)
(*                                                                         *)
(* Strings whose characters matter (socket names, connector and plugin     *)
(* names, socket ids, identity keys, the decimal text of a port) are       *)
(* sequences of one-character strings; the empty string is << >>.  Other   *)
(* strings are TLA+ strings, "" being the empty one.                       *)
(*                                                                         *)
(* HandleUpdates is run by one goroutine, one tick after the other; the    *)
(* dispatcher and every connect task run concurrently with it.  A tick is  *)
(* split where it can block or calls the control plane.  The control       *)
(* plane (api.API), the registry (SyncMap) and the session handle          *)
(* (ssh.Connection) are modelled from their specified interface: a store   *)
(* that keeps what is written, a map with add/get/delete, and a handle     *)
(* that is open when made and reports closed once its session has ended    *)
(* or Close was called.  The configured sockets of Spec, SpecWarm and      *)
(* SpecCancel never enable connector authentication, so lines 100-110 of   *)
(* TunnelConnnect do nothing there; those of SpecAuth do.                  *)
(*                                                                         *)
(* Specifications:                                                         *)
(*   Spec        the agent over a control plane that starts empty;         *)
(*   SpecWarm    the agent over a control plane that already holds         *)
(*               sockets (hand-made, of another connector or plugin, and   *)
(*               of this connector from an earlier configuration);         *)
(*   SpecCancel  the agent with cancellation of the root context;          *)
(*   SpecTags    ConnectorData.Tags and BuildConnectorDataByTags alone;    *)
(*   SpecUpdate  CheckAndUpdateSocket alone;                               *)
(*   SpecPolicy  CheckAndUpdateSocket on sockets that differ in their      *)
(*               policy names only;                                        *)
(*   SpecSanitize  Socket.SanitizeName alone;                              *)
(*   SpecInfer   Socket.SetupTypeAndUpstreamTypeByPortOrTags alone;        *)
(*   SpecDiscover  the discovery loop, DiscoverNewSocketChanges;           *)
(*   SpecAuth    the agent with configured sockets that enable connector   *)
(*               authentication;                                           *)
(*   SpecKeepAlive, SpecKeepAliveFair  the keepalive watcher of a session, *)
(*               without and with fair scheduling of its steps;            *)
(*   SpecForeign  the agent beside a socket of a connector whose name      *)
(*               holds a ';';                                              *)
(*   SpecConverge  the agent with one discovery result for all ticks,      *)
(*               control-plane calls that succeed after the first tick and *)
(*               fair scheduling of the reconciler and the dispatcher;     *)
(*   SpecCloudAuth  the agent over a socket whose cloud authentication     *)
(*               was switched off;                                         *)
(*   SpecInferTwice  SetupTypeAndUpstreamTypeByPortOrTags applied twice;   *)
(*   SpecConnectCmd  the command 'socket connect'.                         *)
(***************************************************************************)
EXTENDS Integers, Sequences, FiniteSets, TLC

VARIABLES
    server,            \* control plane: the stored sockets, oldest first
    nextId,            \* control plane: number of the next socket_id to assign
    registry,          \* c.connectedTunnels: set of <<socket_id, session>>
    tasks,             \* TunnelConnnect goroutines, one ssh.Connection each
    connectChan,       \* c.connectChan
    pc,                \* position of the reconciler inside HandleUpdates ("exited": the process is gone)
    idx,               \* loop index of the pass the reconciler is in
    sub,               \* statement reached inside the "absent" delete branch
    discovered,        \* discoveredSockets (bootstrapped) of the current/last tick
    socketsFromApi,    \* socketsFromApi of the current tick
    localSocketsMap,   \* localSocketsMap of the current tick
    socketApiMap,      \* socketApiMap of the current tick
    socketsToConnect,  \* socketsToConnect of the current tick
    tickErr,           \* whether the current/last tick returned an error
    ops,               \* control-plane calls and channel sends of the current/last tick
    ticks,             \* number of ticks started
    stable,            \* history: this tick repeats the previous successful tick's discovery
    lostAtStart,       \* history: socket ids whose tunnels had all ended when the tick began
    torn,              \* history: sessions registered for a socket when its disconnect was handled
    repeated,          \* history: this tick repeats the previous successful tick's discovered sockets
    ctxDone,           \* the root context is cancelled
    dispatcher,        \* TunnelConnectJob's goroutine: "running", "returned" or "exited"
    arg,               \* the input of the function under study (function specifications)
    res                \* its result, << >> until it is computed

vars == <<server, nextId, registry, tasks, connectChan, pc, idx, sub, discovered,
          socketsFromApi, localSocketsMap, socketApiMap, socketsToConnect, tickErr,
          ops, ticks, stable, lostAtStart, torn, repeated, ctxDone, dispatcher,
          arg, res>>

-----------------------------------------------------------------------------
(* Bounds of the model *)

MaxTicks == 2
MaxDisc == 2

(* Program constants and configuration *)

ChanCap == 5
ConnectorName == <<"c", "1">>
DiscoveryName == <<"S", "t", "a", "t", "i", "c", "S", "o", "c", "k", "e", "t",
                   "F", "i", "n", "d", "e", "r">>
Principal == "token:t1"
CreatedByDescription == "created by c1"

-----------------------------------------------------------------------------
(* strconv.Itoa / strconv.Atoi *)

Digits == <<"0", "1", "2", "3", "4", "5", "6", "7", "8", "9">>

RECURSIVE Itoa(_)
Itoa(n) == IF n < 0 THEN <<"-">> \o Itoa(-n)
           ELSE IF n < 10 THEN <<Digits[n + 1]>>
           ELSE Itoa(n \div 10) \o <<Digits[(n % 10) + 1]>>

DigitValue(ch) == CHOOSE d \in 0..9 : Digits[d + 1] = ch

IsDigit(ch) == \E d \in 0..9 : Digits[d + 1] = ch

RECURSIVE AtoiDigits(_)
AtoiDigits(s) == IF s = << >> THEN 0
                 ELSE 10 * AtoiDigits(SubSeq(s, 1, Len(s) - 1)) + DigitValue(s[Len(s)])

\* port, _ := strconv.Atoi(...): an optional sign and digits; 0 when the text is no number
Atoi(s) ==
    LET signed == s # << >> /\ s[1] \in {"-", "+"}
        digits == IF signed THEN Tail(s) ELSE s
    IN  IF digits # << >> /\ \A i \in DOMAIN digits : IsDigit(digits[i])
        THEN IF signed /\ s[1] = "-" THEN -AtoiDigits(digits) ELSE AtoiDigits(digits)
        ELSE 0

-----------------------------------------------------------------------------
(* models.ConnectorData *)

EmptyConnectorData ==
    [Name |-> << >>, Connector |-> << >>, Type |-> "", Port |-> 0,
     TargetHostname |-> "", PolicyGroup |-> "", Ec2Tag |-> "", InstanceId |-> "",
     PluginName |-> << >>, ManagedBy |-> ""]

NoTags == << >>

\* tags without the target port
TagsNoPort(c) ==
    [k \in {"name", "connector_name", "type", "target_hostname", "ec2_tag",
            "policy_group", "instance_id", "plugin_name", "managed_by"} |->
        CASE k = "name" -> c.Name
          [] k = "connector_name" -> c.Connector
          [] k = "type" -> c.Type
          [] k = "target_hostname" -> c.TargetHostname
          [] k = "ec2_tag" -> c.Ec2Tag
          [] k = "policy_group" -> c.PolicyGroup
          [] k = "instance_id" -> c.InstanceId
          [] k = "plugin_name" -> c.PluginName
          [] k = "managed_by" -> c.ManagedBy]

Tags(c) ==
    LET data == [k \in {"name", "connector_name", "type", "target_port",
                        "target_hostname", "ec2_tag", "policy_group",
                        "instance_id", "plugin_name"} |->
                    CASE k = "name" -> c.Name
                      [] k = "connector_name" -> c.Connector
                      [] k = "type" -> c.Type
                      [] k = "target_port" -> Itoa(c.Port)
                      [] k = "target_hostname" -> c.TargetHostname
                      [] k = "ec2_tag" -> c.Ec2Tag
                      [] k = "policy_group" -> c.PolicyGroup
                      [] k = "instance_id" -> c.InstanceId
                      [] k = "plugin_name" -> c.PluginName]
    IN  IF c.ManagedBy # ""
        THEN [k \in DOMAIN data \cup {"managed_by"} |->
                 IF k = "managed_by" THEN c.ManagedBy ELSE data[k]]
        ELSE data

Key(c) ==
    IF c.Name = << >> /\ c.Connector = << >> /\ c.Type = "" /\ c.Port = 0
    THEN << >>
    ELSE c.Name \o <<";">> \o c.Connector \o <<";">> \o c.PluginName

\* s.Tags[k] of a Go map: the zero value when the key is absent
TagGet(tags, k, zero) == IF k \in DOMAIN tags THEN tags[k] ELSE zero

-----------------------------------------------------------------------------
(* models.Socket *)

ZeroSocket ==
    [SocketID |-> << >>, Name |-> << >>, Description |-> "", SocketType |-> "",
     AllowedEmailAddresses |-> << >>, AllowedEmailDomains |-> << >>,
     UpstreamUsername |-> "", UpstreamHttpHostname |-> "", UpstreamType |-> "",
     CloudAuthEnabled |-> FALSE, ConnectorAuthenticationEnabled |-> FALSE,
     Tags |-> NoTags, PolicyNames |-> << >>,
     TargetHostname |-> "", TargetPort |-> 0, PolicyGroup |-> "", Ec2Tag |-> "",
     InstanceId |-> "", PluginName |-> << >>, ManagedBy |-> "",
     ConnectorData |-> EmptyConnectorData]

ReplaceAll(s, old, new) == [i \in 1..Len(s) |-> IF s[i] = old THEN new ELSE s[i]]

\* a sanitisation that leaves spaces alone
SanitizeNameKeepSpaces(s) ==
    LET n1 == ReplaceAll(s.Name, ".", "-")
    IN  [s EXCEPT !.Name = ReplaceAll(n1, "_", "-")]

SanitizeNameKeep(s) == s

SanitizeName(s) ==
    LET n1 == ReplaceAll(s.Name, ".", "-")
        n2 == ReplaceAll(n1, " ", "-")
        n3 == ReplaceAll(n2, ".", "-")
    IN  [s EXCEPT !.Name = ReplaceAll(n3, "_", "-")]

BuildConnectorData(s, connectorName, principal) ==
    [s EXCEPT !.ConnectorData =
        [Name |-> s.Name, Connector |-> connectorName, Type |-> s.SocketType,
         Port |-> s.TargetPort, TargetHostname |-> s.TargetHostname,
         PolicyGroup |-> s.PolicyGroup, Ec2Tag |-> s.Ec2Tag,
         InstanceId |-> s.InstanceId, PluginName |-> s.PluginName,
         ManagedBy |-> principal]]

BuildConnectorDataByTags(s) ==
    IF DOMAIN s.Tags = {}
    THEN [s EXCEPT !.ConnectorData = EmptyConnectorData]
    ELSE [s EXCEPT !.ConnectorData =
            [Name |-> TagGet(s.Tags, "name", << >>),
             Connector |-> TagGet(s.Tags, "connector_name", << >>),
             Type |-> TagGet(s.Tags, "type", ""),
             Port |-> Atoi(TagGet(s.Tags, "target_port", << >>)),
             TargetHostname |-> TagGet(s.Tags, "target_hostname", ""),
             PolicyGroup |-> TagGet(s.Tags, "policy_group", ""),
             Ec2Tag |-> TagGet(s.Tags, "ec2_tag", ""),
             InstanceId |-> TagGet(s.Tags, "instance_id", ""),
             PluginName |-> TagGet(s.Tags, "plugin_name", << >>),
             ManagedBy |-> TagGet(s.Tags, "managed_by", "")]]

\* an inference that knows no port 443 and takes port 22 for a web server
SetupTypeByPortPlain(s) ==
    IF s.UpstreamType # "" \/ s.SocketType # "" THEN s
    ELSE CASE s.TargetPort = 3306 ->
                [s EXCEPT !.SocketType = "database", !.UpstreamType = "mysql"]
           [] s.TargetPort = 5432 ->
                [s EXCEPT !.SocketType = "database", !.UpstreamType = "postgres"]
           [] s.TargetPort \in {22, 80} ->
                [s EXCEPT !.SocketType = "http", !.UpstreamType = "http"]
           [] OTHER -> [s EXCEPT !.UpstreamType = "http"]

\* an inference that promotes mysql and postgres whatever upstream_type says
SetupTypePromoteAlways(s) ==
    IF s.SocketType = "mysql"
    THEN [s EXCEPT !.UpstreamType = "mysql", !.SocketType = "database"]
    ELSE IF s.SocketType = "postgres"
    THEN [s EXCEPT !.UpstreamType = "postgres", !.SocketType = "database"]
    ELSE IF s.UpstreamType # "" THEN s
    ELSE IF s.SocketType # ""
    THEN CASE s.SocketType = "database" ->
                [s EXCEPT !.UpstreamType =
                    IF s.TargetPort = 5432 THEN "postgres"
                    ELSE IF s.TargetPort = 3306 THEN "mysql" ELSE "http"]
           [] s.SocketType = "https" ->
                [s EXCEPT !.SocketType = "http", !.UpstreamType = "https"]
           [] OTHER -> [s EXCEPT !.UpstreamType = "http"]
    ELSE CASE s.TargetPort = 3306 ->
                [s EXCEPT !.SocketType = "database", !.UpstreamType = "mysql"]
           [] s.TargetPort = 5432 ->
                [s EXCEPT !.SocketType = "database", !.UpstreamType = "postgres"]
           [] s.TargetPort = 22 ->
                [s EXCEPT !.SocketType = "ssh", !.UpstreamType = "http"]
           [] s.TargetPort = 80 ->
                [s EXCEPT !.SocketType = "http", !.UpstreamType = "http"]
           [] s.TargetPort = 443 ->
                [s EXCEPT !.SocketType = "http", !.UpstreamType = "https"]
           [] OTHER -> [s EXCEPT !.UpstreamType = "http"]

SetupTypeAndUpstreamTypeByPortOrTags(s) ==
    IF s.UpstreamType # "" THEN s
    ELSE IF s.SocketType # ""
    THEN CASE s.SocketType = "mysql" ->
                [s EXCEPT !.UpstreamType = "mysql", !.SocketType = "database"]
           [] s.SocketType = "postgres" ->
                [s EXCEPT !.UpstreamType = "postgres", !.SocketType = "database"]
           [] s.SocketType = "database" ->
                [s EXCEPT !.UpstreamType =
                    IF s.TargetPort = 5432 THEN "postgres"
                    ELSE IF s.TargetPort = 3306 THEN "mysql" ELSE "http"]
           [] s.SocketType = "https" ->
                [s EXCEPT !.SocketType = "http", !.UpstreamType = "https"]
           [] OTHER -> [s EXCEPT !.UpstreamType = "http"]
    ELSE CASE s.TargetPort = 3306 ->
                [s EXCEPT !.SocketType = "database", !.UpstreamType = "mysql"]
           [] s.TargetPort = 5432 ->
                [s EXCEPT !.SocketType = "database", !.UpstreamType = "postgres"]
           [] s.TargetPort = 22 ->
                [s EXCEPT !.SocketType = "ssh", !.UpstreamType = "http"]
           [] s.TargetPort = 80 ->
                [s EXCEPT !.SocketType = "http", !.UpstreamType = "http"]
           [] s.TargetPort = 443 ->
                [s EXCEPT !.SocketType = "http", !.UpstreamType = "https"]
           [] OTHER -> [s EXCEPT !.UpstreamType = "http"]

\* The fields of a socket that travel in JSON: the `json:"-"` fields do not.
Wire(s) ==
    [s EXCEPT !.TargetHostname = "", !.TargetPort = 0, !.PolicyGroup = "",
              !.Ec2Tag = "", !.InstanceId = "", !.PluginName = << >>,
              !.ManagedBy = "", !.ConnectorData = EmptyConnectorData]

-----------------------------------------------------------------------------
(* Discovery: StaticSocketFinder.Find over the configured sockets *)

SocketConfigs ==
    << [name |-> <<"a", "_", "1">>, port |-> 22,   httpHost |-> "", connectorAuth |-> FALSE],
       [name |-> <<"a", "_", "1">>, port |-> 22,   httpHost |-> "h", connectorAuth |-> FALSE],
       [name |-> <<"a", ".", "1">>, port |-> 2222, httpHost |-> "", connectorAuth |-> FALSE],
       [name |-> <<"d", "b", "_", "1">>, port |-> 3306, httpHost |-> "", connectorAuth |-> FALSE] >>

\* the configured sockets a discovery run returns: any MaxDisc of them, in config order
DiscoveriesOf(configs) ==
    LET picks == {p \in SUBSET DOMAIN configs : Cardinality(p) <= MaxDisc}
        nth(p, i) == CHOOSE x \in p : Cardinality({y \in p : y < x}) = i - 1
    IN  { [i \in 1..Cardinality(p) |-> configs[nth(p, i)]] : p \in picks }

Discoveries == DiscoveriesOf(SocketConfigs)

Find(cfgs) ==
    [i \in DOMAIN cfgs |->
        [ZeroSocket EXCEPT !.Name = cfgs[i].name,
                           !.TargetHostname = "localhost",
                           !.TargetPort = cfgs[i].port,
                           !.UpstreamHttpHostname = cfgs[i].httpHost,
                           !.ConnectorAuthenticationEnabled = cfgs[i].connectorAuth,
                           !.CloudAuthEnabled = TRUE]]

-----------------------------------------------------------------------------
(* The control plane (api.API): a store of sockets that keeps what is written.
   w is the record [server, nextId, ops]; ok is whether the call succeeds. *)

SocketIdOf(n) == <<"s">> \o Itoa(n)

OnServer(srv, id) == \E i \in DOMAIN srv : srv[i].SocketID = id

Call(op, id, key, ok, why) == [op |-> op, id |-> id, key |-> key, ok |-> ok, why |-> why]

Failed(w, op, id, key, why) ==
    [w |-> [w EXCEPT !.ops = Append(@, Call(op, id, key, FALSE, why))],
     err |-> TRUE, socket |-> ZeroSocket]

ApiCreateSocket(w, s, ok, key, why) ==
    IF ~ok THEN Failed(w, "POST", << >>, key, why)
    ELSE LET created == [Wire(s) EXCEPT !.SocketID = SocketIdOf(w.nextId)]
         IN  [w |-> [server |-> Append(w.server, created),
                     nextId |-> w.nextId + 1,
                     ops |-> Append(w.ops, Call("POST", created.SocketID, key, TRUE, why))],
              err |-> FALSE, socket |-> created]

ApiDeleteSocket(w, id, ok, key, why) ==
    IF ~ok \/ ~OnServer(w.server, id) THEN Failed(w, "DELETE", id, key, why)
    ELSE [w |-> [w EXCEPT !.server = SelectSeq(@, LAMBDA x : x.SocketID # id),
                          !.ops = Append(@, Call("DELETE", id, key, TRUE, why))],
          err |-> FALSE, socket |-> ZeroSocket]

ApiUpdateSocket(w, id, s, ok, key, why) ==
    IF ~ok \/ ~OnServer(w.server, id) THEN Failed(w, "PUT", id, key, why)
    ELSE [w |-> [w EXCEPT !.server = [i \in DOMAIN @ |->
                                        IF @[i].SocketID = id
                                        THEN [Wire(s) EXCEPT !.SocketID = id]
                                        ELSE @[i]],
                          !.ops = Append(@, Call("PUT", id, key, TRUE, why))],
          err |-> FALSE, socket |-> s]

-----------------------------------------------------------------------------
(* Reconciler helpers *)

Count(a, x) == Cardinality({i \in DOMAIN a : a[i] = x})

\* sort both, then compare element by element: equal as multisets
\* a comparison of the sets of elements
stringSlicesEqualAsSets(a, b) ==
    {a[i] : i \in DOMAIN a} = {b[i] : i \in DOMAIN b}

stringSlicesEqual(a, b) ==
    /\ Len(a) = Len(b)
    /\ \A i \in DOMAIN a : Count(a, a[i]) = Count(b, a[i])

CreateSocketAndTunnel(w, s, ok, why) ==
    LET s1 == IF s.Description = "" THEN [s EXCEPT !.Description = CreatedByDescription]
              ELSE s
        r  == ApiCreateSocket(w, s1, ok, Key(s.ConnectorData), why)
    IN  IF r.err THEN r
        ELSE [r EXCEPT !.socket.PolicyNames = s.PolicyNames]

RecreateSocketCreateFirst(w, socketID, localSocket, delOk, postOk) ==
    LET key == Key(localSocket.ConnectorData)
        c   == CreateSocketAndTunnel(w, localSocket, postOk, "recreate")
        d   == ApiDeleteSocket(c.w, socketID, delOk, key, "recreate")
    IN  IF c.err THEN c
        ELSE IF d.err THEN d
        ELSE [w |-> d.w, err |-> FALSE, socket |-> BuildConnectorDataByTags(c.socket)]

RecreateSocket(w, socketID, localSocket, delOk, postOk) ==
    LET key == Key(localSocket.ConnectorData)
        d   == ApiDeleteSocket(w, socketID, delOk, key, "recreate")
        c   == CreateSocketAndTunnel(d.w, localSocket, postOk, "recreate")
    IN  IF d.err THEN d
        ELSE IF c.err THEN c
        ELSE [c EXCEPT !.socket = BuildConnectorDataByTags(c.socket)]

\* a comparison that leaves upstream_username out
DivergesIgnoringUsername(apiSocket, localSocket) ==
    \/ ~stringSlicesEqual(apiSocket.AllowedEmailAddresses, localSocket.AllowedEmailAddresses)
    \/ ~stringSlicesEqual(apiSocket.AllowedEmailDomains, localSocket.AllowedEmailDomains)
    \/ ~stringSlicesEqual(apiSocket.PolicyNames, localSocket.PolicyNames)
    \/ apiSocket.UpstreamHttpHostname # localSocket.UpstreamHttpHostname
    \/ apiSocket.UpstreamType # localSocket.UpstreamType
    \/ apiSocket.ConnectorAuthenticationEnabled # localSocket.ConnectorAuthenticationEnabled

Diverges(apiSocket, localSocket) ==
    LET check0 == /\ stringSlicesEqual(apiSocket.AllowedEmailAddresses,
                                       localSocket.AllowedEmailAddresses)
                  /\ stringSlicesEqual(localSocket.AllowedEmailAddresses,
                                       apiSocket.AllowedEmailAddresses)
                  /\ stringSlicesEqual(apiSocket.AllowedEmailDomains,
                                       localSocket.AllowedEmailDomains)
                  /\ stringSlicesEqual(localSocket.AllowedEmailDomains,
                                       apiSocket.AllowedEmailDomains)
        check  == IF Len(apiSocket.PolicyNames) > 0 \/ Len(localSocket.PolicyNames) > 0
                  THEN /\ check0
                       /\ stringSlicesEqual(apiSocket.PolicyNames, localSocket.PolicyNames)
                       /\ stringSlicesEqual(localSocket.PolicyNames, apiSocket.PolicyNames)
                  ELSE check0
    IN  \/ ~check
        \/ apiSocket.UpstreamHttpHostname # localSocket.UpstreamHttpHostname
        \/ apiSocket.UpstreamUsername # localSocket.UpstreamUsername
        \/ apiSocket.UpstreamType # localSocket.UpstreamType
        \/ apiSocket.ConnectorAuthenticationEnabled # localSocket.ConnectorAuthenticationEnabled

\* an update that leaves cloud_auth_enabled as the server has it
CheckAndUpdateSocketKeepCloudAuth(w, apiSocket, localSocket, ok) ==
    IF Diverges(apiSocket, localSocket)
    THEN LET a == [apiSocket EXCEPT
                     !.AllowedEmailAddresses = localSocket.AllowedEmailAddresses,
                     !.AllowedEmailDomains = localSocket.AllowedEmailDomains,
                     !.UpstreamHttpHostname = localSocket.UpstreamHttpHostname,
                     !.UpstreamUsername = localSocket.UpstreamUsername,
                     !.ConnectorAuthenticationEnabled =
                         localSocket.ConnectorAuthenticationEnabled,
                     !.UpstreamType = "",
                     !.Tags = localSocket.Tags,
                     !.PolicyNames = localSocket.PolicyNames]
         IN  ApiUpdateSocket(w, a.SocketID, a, ok, Key(localSocket.ConnectorData), "update")
    ELSE [w |-> w, err |-> FALSE, socket |-> apiSocket]

CheckAndUpdateSocket(w, apiSocket, localSocket, ok) ==
    IF Diverges(apiSocket, localSocket)
    THEN LET a == [apiSocket EXCEPT
                     !.AllowedEmailAddresses = localSocket.AllowedEmailAddresses,
                     !.AllowedEmailDomains = localSocket.AllowedEmailDomains,
                     !.UpstreamHttpHostname = localSocket.UpstreamHttpHostname,
                     !.UpstreamUsername = localSocket.UpstreamUsername,
                     !.ConnectorAuthenticationEnabled =
                         localSocket.ConnectorAuthenticationEnabled,
                     !.UpstreamType = "",
                     !.CloudAuthEnabled = TRUE,
                     !.Tags = localSocket.Tags,
                     !.PolicyNames = localSocket.PolicyNames]
         IN  ApiUpdateSocket(w, a.SocketID, a, ok, Key(localSocket.ConnectorData), "update")
    ELSE [w |-> w, err |-> FALSE, socket |-> apiSocket]

\* a Go map filled in list order: the last socket with a key wins
MapByKey(list) ==
    LET keyed == {i \in DOMAIN list : Key(list[i].ConnectorData) # << >>}
        last(k) == CHOOSE i \in keyed :
                      /\ Key(list[i].ConnectorData) = k
                      /\ \A j \in keyed : Key(list[j].ConnectorData) = k => j <= i
    IN  [k \in {Key(list[i].ConnectorData) : i \in keyed} |-> list[last(k)]]

\* SocketsCoreHandler, lines 204-214
BootstrapLocal(s) ==
    LET s1 == [s EXCEPT !.PluginName = DiscoveryName]
        s2 == SanitizeName(s1)
        s3 == BuildConnectorData(s2, ConnectorName, Principal)
        s4 == [s3 EXCEPT !.Tags = Tags(s3.ConnectorData)]
    IN  SetupTypeAndUpstreamTypeByPortOrTags(s4)

\* SocketsCoreHandler, lines 222-235 (no policies are attached on the control plane)
BootstrapApi(s) == BuildConnectorDataByTags(s)

\* a delete pass that takes every socket of this connector for its own, whatever the plugin
CheckSocketsToDeleteBranchAnyPlugin(apiSocket, lmap) ==
    LET key == Key(apiSocket.ConnectorData)
    IN  IF key = << >> THEN "skip"
        ELSE IF key \in DOMAIN lmap
        THEN IF lmap[key].ConnectorData # apiSocket.ConnectorData
             THEN "recreate" ELSE "keep"
        ELSE IF apiSocket.ConnectorData.Connector = ConnectorName
        THEN "absent" ELSE "foreign"

\* a delete pass that deletes every server socket without a discovered match
CheckSocketsToDeleteBranchUnmatched(apiSocket, lmap) ==
    LET key == Key(apiSocket.ConnectorData)
    IN  IF key \in DOMAIN lmap
        THEN IF lmap[key].ConnectorData # apiSocket.ConnectorData
             THEN "recreate" ELSE "keep"
        ELSE "absent"

\* a delete pass that also recreates on a changed upstream_http_hostname
CheckSocketsToDeleteBranchOnFields(apiSocket, lmap) ==
    LET key == Key(apiSocket.ConnectorData)
    IN  IF key = << >> THEN "skip"
        ELSE IF key \in DOMAIN lmap
        THEN IF \/ lmap[key].ConnectorData # apiSocket.ConnectorData
                \/ lmap[key].UpstreamHttpHostname # apiSocket.UpstreamHttpHostname
             THEN "recreate" ELSE "keep"
        ELSE IF /\ apiSocket.ConnectorData.Connector = ConnectorName
                /\ apiSocket.ConnectorData.PluginName = DiscoveryName
        THEN "absent" ELSE "foreign"

\* a delete pass that leaves every server socket without a discovered match alone
CheckSocketsToDeleteBranchKeepAbsent(apiSocket, lmap) ==
    LET key == Key(apiSocket.ConnectorData)
    IN  IF key = << >> THEN "skip"
        ELSE IF key \in DOMAIN lmap
        THEN IF lmap[key].ConnectorData # apiSocket.ConnectorData
             THEN "recreate" ELSE "keep"
        ELSE "foreign"

CheckSocketsToDeleteBranch(apiSocket, lmap) ==
    LET key == Key(apiSocket.ConnectorData)
    IN  IF key = << >> THEN "skip"
        ELSE IF key \in DOMAIN lmap
        THEN IF lmap[key].ConnectorData # apiSocket.ConnectorData
             THEN "recreate" ELSE "keep"
        ELSE IF /\ apiSocket.ConnectorData.Connector = ConnectorName
                /\ apiSocket.ConnectorData.PluginName = DiscoveryName
        THEN "absent" ELSE "foreign"

\* the statements of the "absent" branch, in program order (lines 343 and 348)
AbsentStepsDeleteOnly == <<"DELETE">>

AbsentSteps == <<"disconnect", "DELETE">>

AfterEmit(i, nConn) == IF i <= nConn THEN <<"emit", i>> ELSE <<"done", i>>

\* a tick that runs the delete pass once more after the create pass
AfterCreateRedoDeletes(i, nDisc) ==
    IF i <= nDisc THEN <<"create", i>>
    ELSE IF socketsFromApi # << >> /\ Len(socketsToConnect) <= nDisc THEN <<"delete", 1>>
    ELSE AfterEmit(1, nDisc)

AfterCreate(i, nDisc) == IF i <= nDisc THEN <<"create", i>> ELSE AfterEmit(1, nDisc)

AfterDelete(i, nApi, nDisc) == IF i <= nApi THEN <<"delete", i>> ELSE AfterCreate(1, nDisc)

World == [server |-> server, nextId |-> nextId, ops |-> ops]

Event(key, id, action) == [key |-> key, socket |-> id, action |-> action]

-----------------------------------------------------------------------------
(* Tunnel registry (SyncMap) and sessions (ssh.Connection) *)

SyncMapAdd(reg, key, sess) == {e \in reg : e[1] # key} \cup {<<key, sess>>}

SyncMapDelete(reg, key) == {e \in reg : e[1] # key}

SyncMapGet(reg, key) == {e[2] : e \in {x \in reg : x[1] = key}}

IsClosed(t) == tasks[t].closed

\* a liveness check that takes an open handle of any socket
IsSocketConnectedAnySocket(key) == \E e \in registry : ~IsClosed(e[2])

IsSocketConnectedIgnoringClosed(key) == SyncMapGet(registry, key) # {}

IsSocketConnected(key) ==
    LET got == SyncMapGet(registry, key)
    IN  IF got # {} /\ \E t \in got : IsClosed(t) THEN FALSE ELSE got # {}

-----------------------------------------------------------------------------
(* Initial state: NewConnectorCore, an empty control plane, no tick yet *)

EmptyMap == [k \in {} |-> ZeroSocket]

\* the agent's own state after NewConnectorCore, before the first tick
AgentInit ==
    /\ registry = {}
    /\ tasks = << >>
    /\ connectChan = << >>
    /\ pc = "idle"
    /\ idx = 1
    /\ sub = 1
    /\ discovered = << >>
    /\ socketsFromApi = << >>
    /\ localSocketsMap = EmptyMap
    /\ socketApiMap = EmptyMap
    /\ socketsToConnect = << >>
    /\ tickErr = FALSE
    /\ ops = << >>
    /\ ticks = 0
    /\ stable = FALSE
    /\ lostAtStart = {}
    /\ torn = {}
    /\ repeated = FALSE
    /\ ctxDone = FALSE
    /\ dispatcher = "running"

\* no function is under study
FnIdle == arg = << >> /\ res = << >>

Init ==
    /\ server = << >>
    /\ nextId = 1
    /\ AgentInit
    /\ FnIdle

-----------------------------------------------------------------------------
(* The reconciler: HandleUpdates -> SocketsCoreHandler -> CheckSocketsToDelete,
   CheckSocketsToCreate, then the connect loop *)

\* History helpers: what a tick is compared with (they do not change the program)
ConnectorDatas(list) == [i \in DOMAIN list |-> list[i].ConnectorData]

TasksOf(id) == {t \in DOMAIN tasks : tasks[t].socket = id}

\* socket ids of the control plane whose connect tasks have all returned
TunnelsLost ==
    {id \in {server[i].SocketID : i \in DOMAIN server} :
        /\ TasksOf(id) # {}
        /\ \A t \in TasksOf(id) : tasks[t].pc = "returned"
        /\ \A j \in DOMAIN connectChan : connectChan[j].socket # id}

SetPos(pos) == pc' = pos[1] /\ idx' = pos[2]

Abort == pc' = "done" /\ idx' = idx /\ tickErr' = TRUE /\ socketsToConnect' = << >>

SetWorld(w) == server' = w.server /\ nextId' = w.nextId /\ ops' = w.ops

\* a handler that goes on with an empty inventory when GetSockets fails
AfterGetSocketsGoOn(ok, nApi, nBoot) == AfterDelete(1, IF ok THEN nApi ELSE 0, nBoot)

\* lines 216-219: SocketsCoreHandler returns the error of GetSockets, and HandleUpdates
\* returns it before the connect loop (lines 122-126)
AfterGetSockets(ok, nApi, nBoot) ==
    IF ok THEN AfterDelete(1, nApi, nBoot) ELSE <<"done", 1>>

StartTickUpTo(finds, limit) ==
    /\ pc = "idle"
    /\ ~ctxDone
    /\ ticks < limit
    /\ \E cfgs \in finds, ok \in BOOLEAN :
         LET boot == [i \in DOMAIN cfgs |-> BootstrapLocal(Find(cfgs)[i])]
             api  == [i \in DOMAIN server |-> BootstrapApi(server[i])]
         IN  /\ discovered' = boot
             /\ localSocketsMap' = MapByKey(boot)
             /\ stable' = (ticks > 0 /\ ~tickErr
                           /\ ConnectorDatas(boot) = ConnectorDatas(discovered))
             /\ repeated' = (ticks > 0 /\ ~tickErr /\ boot = discovered)
             /\ ops' = <<Call("GET", << >>, << >>, ok, "list")>>
             /\ IF ok
                THEN /\ socketsFromApi' = api
                     /\ socketApiMap' = MapByKey(api)
                     /\ tickErr' = FALSE
                ELSE /\ socketsFromApi' = << >>
                     /\ socketApiMap' = EmptyMap
                     /\ tickErr' = TRUE
             /\ SetPos(AfterGetSockets(ok, Len(api), Len(boot)))
    /\ ticks' = ticks + 1
    /\ lostAtStart' = TunnelsLost
    /\ socketsToConnect' = << >>
    /\ sub' = 1
    /\ UNCHANGED <<server, nextId, registry, tasks, connectChan, torn, ctxDone,
                   dispatcher, arg, res>>

StartTickWith(finds) == StartTickUpTo(finds, MaxTicks)

StartTick == StartTickWith(Discoveries)

InDelete(branches) ==
    /\ pc = "delete"
    /\ CheckSocketsToDeleteBranch(socketsFromApi[idx], localSocketsMap) \in branches

DeleteAdvance == SetPos(AfterDelete(idx + 1, Len(socketsFromApi), Len(discovered)))

\* lines 317-319, and a server socket that needs nothing
DeleteSkip ==
    /\ InDelete({"skip", "keep", "foreign"})
    /\ DeleteAdvance
    /\ UNCHANGED <<server, nextId, registry, tasks, connectChan, sub, discovered,
                   socketsFromApi, localSocketsMap, socketApiMap, socketsToConnect,
                   tickErr, ops, ticks, stable, lostAtStart, torn,
                   repeated, ctxDone, dispatcher, arg, res>>

\* lines 321-335
DeleteRecreate ==
    /\ InDelete({"recreate"})
    /\ \E delOk, postOk \in BOOLEAN :
         LET a   == socketsFromApi[idx]
             key == Key(a.ConnectorData)
             r   == RecreateSocket(World, a.SocketID, localSocketsMap[key], delOk, postOk)
         IN  /\ SetWorld(r.w)
             /\ IF r.err
                THEN Abort /\ UNCHANGED localSocketsMap
                ELSE /\ localSocketsMap' = [localSocketsMap EXCEPT ![key] = r.socket]
                     /\ DeleteAdvance
                     /\ UNCHANGED <<tickErr, socketsToConnect>>
    /\ UNCHANGED <<registry, tasks, connectChan, sub, discovered, socketsFromApi,
                   socketApiMap, ticks, stable, lostAtStart, torn,
                   repeated, ctxDone, dispatcher, arg, res>>

AbsentAdvance ==
    IF sub < Len(AbsentSteps)
    THEN sub' = sub + 1 /\ UNCHANGED <<pc, idx>>
    ELSE sub' = 1 /\ DeleteAdvance

\* lines 343-346: the send blocks while the channel is full
DeleteAbsentSend ==
    /\ InDelete({"absent"})
    /\ AbsentSteps[sub] = "disconnect"
    /\ Len(connectChan) < ChanCap
    /\ LET a == socketsFromApi[idx]
       IN  /\ connectChan' = Append(connectChan,
                                    Event(Key(a.ConnectorData), a.SocketID, "disconnect"))
           /\ ops' = Append(ops, Call("disconnect", a.SocketID, Key(a.ConnectorData),
                                      TRUE, "absent"))
    /\ AbsentAdvance
    /\ UNCHANGED <<server, nextId, registry, tasks, discovered, socketsFromApi,
                   localSocketsMap, socketApiMap, socketsToConnect, tickErr, ticks,
                   stable, lostAtStart, torn,
                   repeated, ctxDone, dispatcher, arg, res>>

\* lines 348-351
DeleteAbsentCall ==
    /\ InDelete({"absent"})
    /\ AbsentSteps[sub] = "DELETE"
    /\ \E ok \in BOOLEAN :
         LET a == socketsFromApi[idx]
             r == ApiDeleteSocket(World, a.SocketID, ok, Key(a.ConnectorData), "absent")
         IN  /\ SetWorld(r.w)
             /\ IF r.err
                THEN Abort /\ sub' = 1
                ELSE AbsentAdvance /\ UNCHANGED <<tickErr, socketsToConnect>>
    /\ UNCHANGED <<registry, tasks, connectChan, discovered, socketsFromApi,
                   localSocketsMap, socketApiMap, ticks, stable, lostAtStart, torn,
                   repeated, ctxDone, dispatcher, arg, res>>

\* CheckSocketsToCreate, one iteration (lines 361-383)
CreateStep ==
    /\ pc = "create"
    /\ LET localSocket == discovered[idx]
           key == Key(localSocket.ConnectorData)
       IN  \E ok \in BOOLEAN :
             LET r == IF key \notin DOMAIN socketApiMap
                      THEN LET c == CreateSocketAndTunnel(World, localSocket, ok, "create")
                           IN  IF c.err THEN c
                               ELSE [c EXCEPT !.socket =
                                       BuildConnectorData(
                                         [c.socket EXCEPT !.PluginName = DiscoveryName],
                                         ConnectorName, Principal)]
                      ELSE CheckAndUpdateSocket(World, socketApiMap[key], localSocket, ok)
             IN  /\ SetWorld(r.w)
                 /\ IF r.err
                    THEN Abort
                    ELSE /\ socketsToConnect' = Append(socketsToConnect, r.socket)
                         /\ SetPos(AfterCreate(idx + 1, Len(discovered)))
                         /\ UNCHANGED tickErr
    /\ UNCHANGED <<registry, tasks, connectChan, sub, discovered, socketsFromApi,
                   localSocketsMap, socketApiMap, ticks, stable, lostAtStart, torn,
                   repeated, ctxDone, dispatcher, arg, res>>

\* HandleUpdates, one iteration of the connect loop (lines 128-137)
EmitStep ==
    /\ pc = "emit"
    /\ LET socket == socketsToConnect[idx]
       IN  IF ~IsSocketConnected(socket.SocketID)
           THEN /\ Len(connectChan) < ChanCap
                /\ connectChan' = Append(connectChan,
                                         Event(socket.SocketID, socket.SocketID, "connect"))
                /\ ops' = Append(ops, Call("connect", socket.SocketID,
                                           Key(socket.ConnectorData), TRUE, "emit"))
           ELSE UNCHANGED <<connectChan, ops>>
    /\ SetPos(AfterEmit(idx + 1, Len(socketsToConnect)))
    /\ UNCHANGED <<server, nextId, registry, tasks, sub, discovered, socketsFromApi,
                   localSocketsMap, socketApiMap, socketsToConnect, tickErr, ticks,
                   stable, lostAtStart, torn,
                   repeated, ctxDone, dispatcher, arg, res>>

\* HandleUpdates returns; the next tick may begin
EndTick ==
    /\ pc = "done"
    /\ pc' = "idle"
    /\ idx' = 1
    /\ socketsFromApi' = << >>
    /\ localSocketsMap' = EmptyMap
    /\ socketApiMap' = EmptyMap
    /\ socketsToConnect' = << >>
    /\ ops' = << >>
    /\ stable' = FALSE
    /\ repeated' = FALSE
    /\ lostAtStart' = {}
    /\ UNCHANGED <<server, nextId, registry, tasks, connectChan, sub, discovered,
                   tickErr, ticks, torn, ctxDone, dispatcher, arg, res>>

-----------------------------------------------------------------------------
(* The event dispatcher: TunnelConnectJob *)

\* lines 148-158: a connect event spawns a TunnelConnnect goroutine
DispatchConnect ==
    /\ dispatcher = "running"
    /\ connectChan # << >>
    /\ Head(connectChan).action = "connect"
    /\ connectChan' = Tail(connectChan)
    /\ tasks' = Append(tasks, [socket |-> Head(connectChan).socket,
                               pc |-> "spawned", closed |-> FALSE,
                               cert |-> "unread"])
    /\ UNCHANGED <<server, nextId, registry, pc, idx, sub, discovered, socketsFromApi,
                   localSocketsMap, socketApiMap, socketsToConnect, tickErr, ops,
                   ticks, stable, lostAtStart, torn,
                   repeated, ctxDone, dispatcher, arg, res>>

\* the session a disconnect event looks up (line 161)
DisconnectLookup(ev) == SyncMapGet(registry, ev.key)

\* ssh.Connection.Close
Close(tk, found) == [t \in DOMAIN tk |-> IF t \in found THEN [tk[t] EXCEPT !.closed = TRUE]
                                         ELSE tk[t]]

\* lines 160-164
DispatchDisconnect ==
    /\ dispatcher = "running"
    /\ connectChan # << >>
    /\ Head(connectChan).action = "disconnect"
    /\ connectChan' = Tail(connectChan)
    /\ tasks' = Close(tasks, DisconnectLookup(Head(connectChan)))
    /\ torn' = torn \cup {t \in SyncMapGet(registry, Head(connectChan).socket) :
                             tasks[t].pc = "live"}
    /\ UNCHANGED <<server, nextId, registry, pc, idx, sub, discovered, socketsFromApi,
                   localSocketsMap, socketApiMap, socketsToConnect, tickErr, ops,
                   ticks, stable, lostAtStart, repeated, ctxDone,
                   dispatcher, arg, res>>

-----------------------------------------------------------------------------
(* A connect task: TunnelConnnect *)

UnchangedReconciler ==
    UNCHANGED <<server, nextId, connectChan, pc, idx, sub, discovered, socketsFromApi,
                localSocketsMap, socketApiMap, socketsToConnect, tickErr, ops, ticks,
                stable, lostAtStart, torn,
                   repeated, ctxDone, dispatcher, arg, res>>

SetTask(t, field, value) == tasks' = [tasks EXCEPT ![t][field] = value]

TunnelConnnectRegisterKeepOld(reg, socketID, session) == reg \cup {<<socketID, session>>}

\* line 79
TunnelConnnectRegister(reg, socketID, session) == SyncMapAdd(reg, socketID, session)

\* lines 78-79
TunnelConnnectStart(t) ==
    /\ tasks[t].pc = "spawned"
    /\ registry' = TunnelConnnectRegister(registry, tasks[t].socket, t)
    /\ SetTask(t, "pc", "fetch")
    /\ UnchangedReconciler

\* what lines 82-96 can come to: reading the user id, fetching the organization and
\* re-fetching the socket each may fail; a socket the control plane lacks is not found
FetchOutcomes(id) ==
    {"token_error", "organization_error", "socket_error"}
        \cup (IF OnServer(server, id) THEN {"ok"} ELSE {})

\* the registry when lines 82-96 return early
TunnelConnnectEarlyReturn(reg, socketID) == reg

\* line 93: the socket as the control plane has it
GetSocket(srv, id) == srv[CHOOSE i \in DOMAIN srv : srv[i].SocketID = id]

\* what org.Certificates["mtls_certificate"] can be when lines 100-110 read it: absent,
\* text that is no PEM certificate, or a certificate; it is not read for a socket
\* without connector authentication
Certificates(socket) ==
    IF socket.ConnectorAuthenticationEnabled THEN {"absent", "garbage", "pem"}
    ELSE {"unread"}

\* a check that only asks for the certificate to be there
CaCertPoolUnparsed(socket, cert) ==
    IF ~socket.ConnectorAuthenticationEnabled THEN "nil"
    ELSE IF cert = "absent" THEN "fatal"
    ELSE "pool"

\* lines 99-110
CaCertPool(socket, cert) ==
    IF ~socket.ConnectorAuthenticationEnabled THEN "nil"
    ELSE IF cert = "absent" THEN "fatal"
    ELSE IF cert # "pem" THEN "fatal"
    ELSE "pool"

\* log.Fatalf in task t: the process exits, and with it the reconciler, the
\* dispatcher and every connect task that had not returned
Fatalf(t, cert) ==
    /\ tasks' = [u \in DOMAIN tasks |->
                    IF u = t THEN [tasks[u] EXCEPT !.pc = "fatal", !.cert = cert]
                    ELSE IF tasks[u].pc = "returned" THEN tasks[u]
                    ELSE [tasks[u] EXCEPT !.pc = "exited"]]
    /\ pc' = "exited"
    /\ dispatcher' = "exited"
    /\ UNCHANGED registry

\* lines 82-110
TunnelConnnectFetch(t) ==
    /\ tasks[t].pc = "fetch"
    /\ \E outcome \in FetchOutcomes(tasks[t].socket) :
         IF outcome = "ok"
         THEN LET socket == GetSocket(server, tasks[t].socket)
              IN  \E cert \in Certificates(socket) :
                     IF CaCertPool(socket, cert) = "fatal"
                     THEN Fatalf(t, cert)
                     ELSE /\ tasks' = [tasks EXCEPT ![t].pc = "connect", ![t].cert = cert]
                          /\ UNCHANGED <<registry, pc, dispatcher>>
         ELSE /\ SetTask(t, "pc", "returned")
              /\ registry' = TunnelConnnectEarlyReturn(registry, tasks[t].socket)
              /\ UNCHANGED <<pc, dispatcher>>
    /\ UNCHANGED <<server, nextId, connectChan, idx, sub, discovered, socketsFromApi,
                   localSocketsMap, socketApiMap, socketsToConnect, tickErr, ops, ticks,
                   stable, lostAtStart, torn, repeated, ctxDone, arg, res>>

\* lines 112-116: session.Connect returns an error without a session having run
SessionConnectFails(t) ==
    /\ tasks[t].pc = "connect"
    /\ SetTask(t, "pc", "returned")
    /\ registry' = SyncMapDelete(registry, tasks[t].socket)
    /\ UnchangedReconciler

\* session.Connect has the tunnel up and blocks for its lifetime
SessionConnected(t) ==
    /\ tasks[t].pc = "connect"
    /\ SetTask(t, "pc", "live")
    /\ UNCHANGED registry
    /\ UnchangedReconciler

\* the session ends (session.Wait returns, keepalive gives up, or Close was called):
\* the handle reports closed and session.Connect returns, with an error or without
SessionEnds(t) ==
    /\ tasks[t].pc = "live"
    /\ tasks' = [tasks EXCEPT ![t].pc = "returned", ![t].closed = TRUE]
    /\ \E err \in BOOLEAN :
         registry' = IF err THEN SyncMapDelete(registry, tasks[t].socket) ELSE registry
    /\ UnchangedReconciler

-----------------------------------------------------------------------------

Next ==
    \/ StartTick
    \/ DeleteSkip
    \/ DeleteRecreate
    \/ DeleteAbsentSend
    \/ DeleteAbsentCall
    \/ CreateStep
    \/ EmitStep
    \/ EndTick
    \/ DispatchConnect
    \/ DispatchDisconnect
    \/ \E t \in DOMAIN tasks : TunnelConnnectStart(t)
    \/ \E t \in DOMAIN tasks : TunnelConnnectFetch(t)
    \/ \E t \in DOMAIN tasks : SessionConnectFails(t)
    \/ \E t \in DOMAIN tasks : SessionConnected(t)
    \/ \E t \in DOMAIN tasks : SessionEnds(t)

Spec == Init /\ [][Next]_vars

-----------------------------------------------------------------------------
(* An agent that starts over a control plane that already holds sockets: sockets
   made by hand, sockets of another connector or plugin, and sockets a previous run
   of this connector created from an earlier configuration *)

OtherConnector == <<"c", "2">>
OtherDiscovery == <<"E", "c", "2", "D", "i", "s", "c", "o", "v", "e", "r">>

\* what a connector leaves on the control plane for a configured socket: the
\* bootstrap of lines 204-214 and the POST of CreateSocketAndTunnel
CreatedBy(connector, plugin, cfg, n) ==
    LET s1 == [Find(<<cfg>>)[1] EXCEPT !.PluginName = plugin]
        s2 == SanitizeName(s1)
        s3 == BuildConnectorData(s2, connector, Principal)
        s4 == [s3 EXCEPT !.Tags = Tags(s3.ConnectorData)]
        s5 == SetupTypeAndUpstreamTypeByPortOrTags(s4)
    IN  [Wire([s5 EXCEPT !.Description = CreatedByDescription])
            EXCEPT !.SocketID = SocketIdOf(n)]

\* a socket made by hand: it carries no tags
HandMade(n) ==
    [ZeroSocket EXCEPT !.SocketID = SocketIdOf(n), !.Name = <<"m">>,
                       !.SocketType = "http", !.UpstreamType = "http"]

\* a socket whose only tag is not one of the connector's
HandTagged(n) ==
    [HandMade(n) EXCEPT !.Tags = [k \in {"team"} |-> "ops"]]

StaleX == [name |-> <<"x">>, port |-> 22, httpHost |-> "", connectorAuth |-> FALSE]
StaleY == [name |-> <<"y">>, port |-> 80, httpHost |-> "", connectorAuth |-> FALSE]

PriorServer ==
    << HandMade(1),
       HandTagged(2),
       CreatedBy(OtherConnector, DiscoveryName, SocketConfigs[1], 3),
       CreatedBy(ConnectorName, OtherDiscovery, SocketConfigs[1], 4),
       CreatedBy(ConnectorName, DiscoveryName, SocketConfigs[1], 5) >>

InitWarm ==
    /\ server = PriorServer
    /\ nextId = Len(server) + 1
    /\ AgentInit
    /\ FnIdle

SpecWarm == InitWarm /\ [][Next]_vars

-----------------------------------------------------------------------------
(* Cancellation of the root context *)

Cancel ==
    /\ ~ctxDone
    /\ ctxDone' = TRUE
    /\ UNCHANGED <<server, nextId, registry, tasks, connectChan, pc, idx, sub, discovered,
                   socketsFromApi, localSocketsMap, socketApiMap, socketsToConnect,
                   tickErr, ops, ticks, stable, lostAtStart, torn, repeated, dispatcher,
                   arg, res>>

\* TunnelConnectJob, lines 146-147
DispatcherReturn ==
    /\ ctxDone
    /\ dispatcher = "running"
    /\ dispatcher' = "returned"
    /\ UNCHANGED <<server, nextId, registry, tasks, connectChan, pc, idx, sub, discovered,
                   socketsFromApi, localSocketsMap, socketApiMap, socketsToConnect,
                   tickErr, ops, ticks, stable, lostAtStart, torn, repeated, ctxDone,
                   arg, res>>

InitCancel ==
    /\ server = << CreatedBy(ConnectorName, DiscoveryName, SocketConfigs[1], 1),
                   CreatedBy(ConnectorName, DiscoveryName, StaleX, 2),
                   CreatedBy(ConnectorName, DiscoveryName, StaleY, 3) >>
    /\ nextId = 4
    /\ AgentInit
    /\ FnIdle

NextCancel ==
    \/ Next
    \/ Cancel
    \/ DispatcherReturn

SpecCancel == InitCancel /\ [][NextCancel]_vars

-----------------------------------------------------------------------------
(* Functions studied on their own: the agent does not run, one function is applied
   to an input drawn from a bounded set *)

program == <<server, nextId, registry, tasks, connectChan, pc, idx, sub, discovered,
             socketsFromApi, localSocketsMap, socketApiMap, socketsToConnect, tickErr,
             ops, ticks, stable, lostAtStart, torn, repeated, ctxDone, dispatcher>>

InitFn(inputs) ==
    /\ server = << >>
    /\ nextId = 1
    /\ AgentInit
    /\ arg \in inputs
    /\ res = << >>

\* ConnectorData.Tags, then Socket.BuildConnectorDataByTags on a socket with those tags
ConnectorDataInputs ==
    [Name : {<< >>, <<"d", "b", "-", "1">>},
     Connector : {<< >>, ConnectorName},
     Type : {"", "ssh"},
     Port : {-1, 0, 22, 3306},
     TargetHostname : {"", "localhost"},
     PolicyGroup : {""},
     Ec2Tag : {"", "border0"},
     InstanceId : {"", "i-0"},
     PluginName : {<< >>, DiscoveryName},
     ManagedBy : {"", Principal}]

TagsRoundTrip ==
    /\ res = << >>
    /\ res' = <<BuildConnectorDataByTags([ZeroSocket EXCEPT !.Tags = Tags(arg)]).ConnectorData>>
    /\ UNCHANGED <<program, arg>>

SpecTags == InitFn(ConnectorDataInputs) /\ [][TagsRoundTrip]_vars

\* CheckAndUpdateSocket on a server socket and a discovered socket with the same key
TrackedValues ==
    [AllowedEmailAddresses : {<< >>, <<"a@x">>, <<"a@x", "b@x">>, <<"b@x", "a@x">>},
     AllowedEmailDomains : {<< >>, <<"x.io">>},
     PolicyNames : {<< >>, <<"p">>},
     UpstreamHttpHostname : {"", "h"},
     UpstreamUsername : {"", "u"},
     UpstreamType : {"", "http", "https"},
     ConnectorAuthenticationEnabled : BOOLEAN]

WithTracked(s, v) ==
    [s EXCEPT !.AllowedEmailAddresses = v.AllowedEmailAddresses,
              !.AllowedEmailDomains = v.AllowedEmailDomains,
              !.PolicyNames = v.PolicyNames,
              !.UpstreamHttpHostname = v.UpstreamHttpHostname,
              !.UpstreamUsername = v.UpstreamUsername,
              !.UpstreamType = v.UpstreamType,
              !.ConnectorAuthenticationEnabled = v.ConnectorAuthenticationEnabled]

\* the server socket as the tick has it (lines 222-235) and the discovered socket as
\* the bootstrap leaves it: its upstream_type is never empty
UpdateInputs ==
    { [api |-> BootstrapApi(WithTracked(
                   CreatedBy(ConnectorName, DiscoveryName, SocketConfigs[1], 1), a)),
       local |-> WithTracked(BootstrapLocal(Find(<<SocketConfigs[1]>>)[1]), l)] :
        a \in TrackedValues,
        l \in {v \in TrackedValues :
                 /\ v.UpstreamType = "http"
                 /\ v.AllowedEmailAddresses # <<"b@x", "a@x">>} }

UpdateWorld == [server |-> <<Wire(arg.api)>>, nextId |-> 2, ops |-> << >>]

CheckAndUpdateSocketCall ==
    /\ res = << >>
    /\ \E ok \in BOOLEAN :
         res' = <<CheckAndUpdateSocket(UpdateWorld, arg.api, arg.local, ok)>>
    /\ UNCHANGED <<program, arg>>

SpecUpdate == InitFn(UpdateInputs) /\ [][CheckAndUpdateSocketCall]_vars

\* Socket.SanitizeName on a name, then again on the name it left
MaxNameLen == 3

NameChars == {"a", "-", "_", ".", " "}

NameInputs == UNION {[1..n -> NameChars] : n \in 0..MaxNameLen}

SanitizeNameCall ==
    /\ Len(res) < 2
    /\ LET name == IF res = << >> THEN arg ELSE res[Len(res)]
       IN  res' = Append(res, SanitizeName([ZeroSocket EXCEPT !.Name = name]).Name)
    /\ UNCHANGED <<program, arg>>

SpecSanitize == InitFn(NameInputs) /\ [][SanitizeNameCall]_vars

\* Socket.SetupTypeAndUpstreamTypeByPortOrTags on a socket as a plugin returns it
TypeInputs ==
    [SocketType : {"", "mysql", "postgres", "database", "https", "http", "ssh", "tls"},
     UpstreamType : {"", "http", "https", "mysql", "postgres"},
     TargetPort : {0, 22, 80, 443, 3306, 5432, 8080}]

SetupTypeCall ==
    /\ res = << >>
    /\ res' = <<SetupTypeAndUpstreamTypeByPortOrTags(
                    [ZeroSocket EXCEPT !.SocketType = arg.SocketType,
                                       !.UpstreamType = arg.UpstreamType,
                                       !.TargetPort = arg.TargetPort])>>
    /\ UNCHANGED <<program, arg>>

SpecInfer == InitFn(TypeInputs) /\ [][SetupTypeCall]_vars

\* SetupTypeAndUpstreamTypeByPortOrTags on a socket, then again on the socket it left
SetupTypeAgain ==
    /\ Len(res) = 1
    /\ res' = Append(res, SetupTypeAndUpstreamTypeByPortOrTags(res[1]))
    /\ UNCHANGED <<program, arg>>

SpecInferTwice == InitFn(TypeInputs) /\ [][SetupTypeCall \/ SetupTypeAgain]_vars

\* CheckAndUpdateSocket on two sockets that differ at most in their policy names
MaxPolicies == 3

PolicyLists == UNION {[1..n -> {"p", "q"}] : n \in 0..MaxPolicies}

AgreedValues ==
    [AllowedEmailAddresses |-> <<"a@x">>, AllowedEmailDomains |-> << >>,
     PolicyNames |-> << >>, UpstreamHttpHostname |-> "", UpstreamUsername |-> "",
     UpstreamType |-> "http", ConnectorAuthenticationEnabled |-> FALSE]

PolicyInputs ==
    { [api |-> BootstrapApi(WithTracked(
                   CreatedBy(ConnectorName, DiscoveryName, SocketConfigs[1], 1),
                   [AgreedValues EXCEPT !.PolicyNames = a])),
       local |-> WithTracked(BootstrapLocal(Find(<<SocketConfigs[1]>>)[1]),
                             [AgreedValues EXCEPT !.PolicyNames = l])] :
        a \in PolicyLists, l \in PolicyLists }

SpecPolicy == InitFn(PolicyInputs) /\ [][CheckAndUpdateSocketCall]_vars

-----------------------------------------------------------------------------
(* The discovery loop: DiscoverNewSocketChanges, called again and again with one
   plugin; each call is one run *)

MaxRuns == 4

\* the two plugins of the repository, and a plugin that makes use of all the Discover
\* interface allows: SkipRun may answer true and Find may fail
Plugins ==
    { [name |-> DiscoveryName, WaitSeconds |-> 30, skips |-> FALSE, fails |-> FALSE],
      [name |-> OtherDiscovery, WaitSeconds |-> 10, skips |-> FALSE, fails |-> TRUE],
      [name |-> <<"D", "i", "s", "c", "o", "v", "e", "r">>, WaitSeconds |-> 5,
       skips |-> TRUE, fails |-> TRUE] }

InitDiscover ==
    /\ server = << >>
    /\ nextId = 1
    /\ AgentInit
    /\ arg \in Plugins
    /\ res = [numberOfRuns |-> 0, runs |-> << >>]

\* one call: what it did, in order, and how long it slept
DiscoverNewSocketChanges ==
    /\ Len(res.runs) < MaxRuns
    /\ \E skip \in (IF arg.skips THEN BOOLEAN ELSE {FALSE}),
          found \in (IF arg.fails THEN BOOLEAN ELSE {TRUE}) :
         LET n     == res.numberOfRuns
             sleep == IF n # 0 THEN <<"Sleep">> ELSE << >>
             steps == IF skip THEN <<"SkipRun">>
                      ELSE <<"SkipRun">> \o sleep \o <<"Find">>
                               \o (IF found THEN <<"send">> ELSE << >>)
         IN  res' = [numberOfRuns |-> IF ~skip /\ found THEN n + 1 ELSE n,
                     runs |-> Append(res.runs,
                                [RunsCount |-> n, skip |-> skip, steps |-> steps,
                                 slept |-> IF ~skip /\ n # 0 THEN arg.WaitSeconds
                                           ELSE 0])]
    /\ UNCHANGED <<program, arg>>

SpecDiscover == InitDiscover /\ [][DiscoverNewSocketChanges]_vars

-----------------------------------------------------------------------------
(* An agent whose configured sockets enable connector authentication: the
   organization's mtls_certificate is read by every connect task of such a socket *)

AuthConfigs ==
    << [name |-> <<"a", "_", "1">>, port |-> 22,   httpHost |-> "", connectorAuth |-> TRUE],
       [name |-> <<"a", ".", "1">>, port |-> 2222, httpHost |-> "", connectorAuth |-> TRUE],
       [name |-> <<"d", "b", "_", "1">>, port |-> 3306, httpHost |-> "",
        connectorAuth |-> FALSE] >>

StartTickAuth == StartTickWith(DiscoveriesOf(AuthConfigs))

NextAuth ==
    \/ StartTickAuth
    \/ DeleteSkip
    \/ DeleteRecreate
    \/ DeleteAbsentSend
    \/ DeleteAbsentCall
    \/ CreateStep
    \/ EmitStep
    \/ EndTick
    \/ DispatchConnect
    \/ DispatchDisconnect
    \/ \E t \in DOMAIN tasks : TunnelConnnectStart(t)
    \/ \E t \in DOMAIN tasks : TunnelConnnectFetch(t)
    \/ \E t \in DOMAIN tasks : SessionConnectFails(t)
    \/ \E t \in DOMAIN tasks : SessionConnected(t)
    \/ \E t \in DOMAIN tasks : SessionEnds(t)

SpecAuth == Init /\ [][NextAuth]_vars

-----------------------------------------------------------------------------
(* The keepalive watcher of a tunnel session: KeepAlive, with time in seconds since
   the watcher started.  The link stalls at arg.stallAt (never, if NoStall): a reply
   that has not arrived by then never arrives. *)

TickerPeriod == 10
max == 4
ProbeDeadline == 5

MaxStall == 12
MaxTime == 60

NoStall == -1

Links == [stallAt : {NoStall} \cup 0..MaxStall]

InitKeepAlive ==
    /\ server = << >>
    /\ nextId = 1
    /\ AgentInit
    /\ arg \in Links
    /\ res = [now |-> 0, n |-> 0, tickAt |-> TickerPeriod, sentAt |-> 0,
              state |-> "waiting", last |-> << >>]

Stalled(t) == arg.stallAt # NoStall /\ t >= arg.stallAt

\* how a probe sent at sentAt can end for the watcher, and when: SendRequest returns
\* a reply or an error before the deadline, or the deadline passes
ProbeOutcomes(sentAt) ==
    {[kind |-> "timeout", at |-> sentAt + ProbeDeadline]}
        \cup {o \in [kind : {"alive", "error"},
                     at : {sentAt + d : d \in 0..(ProbeDeadline - 1)}] : ~Stalled(o.at)}

\* a counter that leaves timeouts out
CountedErrorsOnly(n, kind) ==
    IF kind = "alive" THEN 0 ELSE IF kind = "error" THEN n + 1 ELSE n

\* a counter that a reply does not reset
CountedWithoutReset(n, kind) == IF kind = "alive" THEN n ELSE n + 1

\* the second select of the loop
Counted(n, kind) == IF kind = "alive" THEN 0 ELSE n + 1

\* the last max probe outcomes, oldest first
Window(last, kind) ==
    LET all == Append(last, kind)
    IN  IF Len(all) > max THEN Tail(all) ELSE all

\* case <-t.C: a probe is sent
KeepAliveTick ==
    /\ res.state = "waiting"
    /\ res.tickAt <= MaxTime
    /\ res' = [res EXCEPT !.now = res.tickAt, !.sentAt = res.tickAt,
                          !.tickAt = res.tickAt + TickerPeriod, !.state = "probing"]
    /\ UNCHANGED <<program, arg>>

\* the probe ends; at max consecutive failures the client is closed
KeepAliveProbe ==
    /\ res.state = "probing"
    /\ \E o \in ProbeOutcomes(res.sentAt) :
         LET n == Counted(res.n, o.kind)
         IN  res' = [res EXCEPT !.now = o.at, !.n = n,
                                !.last = Window(res.last, o.kind),
                                !.state = IF n >= max THEN "closed" ELSE "waiting"]
    /\ UNCHANGED <<program, arg>>

\* case <-done: the session has ended by itself, which it does not on a stalled link
KeepAliveDone ==
    /\ res.state = "waiting"
    /\ ~Stalled(res.now)
    /\ res' = [res EXCEPT !.state = "returned"]
    /\ UNCHANGED <<program, arg>>

NextKeepAlive == KeepAliveTick \/ KeepAliveProbe \/ KeepAliveDone

SpecKeepAlive == InitKeepAlive /\ [][NextKeepAlive]_vars

\* the watcher's goroutine is scheduled and time passes
SpecKeepAliveFair == SpecKeepAlive /\ WF_vars(KeepAliveTick) /\ WF_vars(KeepAliveProbe)

-----------------------------------------------------------------------------
(* An agent beside a socket of another connector: the other connector's name holds a
   ';', the separator of Key, and so does the name of a configured socket *)

SemicolonConnector == <<"b", ";", "c", "1">>

\* the socket the connector "b;c1" keeps on the control plane for its socket "a"
ForeignServer ==
    << CreatedBy(SemicolonConnector, DiscoveryName,
                 [name |-> <<"a">>, port |-> 22, httpHost |-> "", connectorAuth |-> FALSE],
                 1) >>

ForeignConfigs ==
    << [name |-> <<"a", ";", "b">>, port |-> 22, httpHost |-> "", connectorAuth |-> FALSE],
       [name |-> <<"d", "b", "_", "1">>, port |-> 3306, httpHost |-> "",
        connectorAuth |-> FALSE] >>

InitForeign ==
    /\ server = ForeignServer
    /\ nextId = Len(server) + 1
    /\ AgentInit
    /\ FnIdle

StartTickForeign == StartTickWith(DiscoveriesOf(ForeignConfigs))

NextForeign ==
    \/ StartTickForeign
    \/ DeleteSkip
    \/ DeleteRecreate
    \/ DeleteAbsentSend
    \/ DeleteAbsentCall
    \/ CreateStep
    \/ EmitStep
    \/ EndTick
    \/ DispatchConnect
    \/ DispatchDisconnect
    \/ \E t \in DOMAIN tasks : TunnelConnnectStart(t)
    \/ \E t \in DOMAIN tasks : TunnelConnnectFetch(t)
    \/ \E t \in DOMAIN tasks : SessionConnectFails(t)
    \/ \E t \in DOMAIN tasks : SessionConnected(t)
    \/ \E t \in DOMAIN tasks : SessionEnds(t)

SpecForeign == InitForeign /\ [][NextForeign]_vars

-----------------------------------------------------------------------------
(* Convergence: the discovery plugin returns the same sockets on every tick (arg
   holds them), control-plane calls may fail for any reason during the first
   GraceTicks ticks and from then on fail only when they name a socket the control
   plane no longer holds, and the reconciler and the dispatcher are scheduled
   fairly. *)

GraceTicks == 1

ConvergeTicks == 4

StaleServer ==
    << CreatedBy(ConnectorName, DiscoveryName, SocketConfigs[1], 1),
       CreatedBy(ConnectorName, DiscoveryName, StaleX, 2),
       CreatedBy(ConnectorName, DiscoveryName, StaleY, 3) >>

InitConverge ==
    /\ server \in {<< >>, StaleServer}
    /\ nextId = Len(server) + 1
    /\ AgentInit
    /\ arg \in Discoveries
    /\ res = << >>

NewCalls == {j \in DOMAIN ops' : j \notin DOMAIN ops \/ ops'[j] # ops[j]}

\* a PUT or DELETE of a socket_id the control plane does not hold
NotFound(call) == call.op \in {"PUT", "DELETE"} /\ ~OnServer(server, call.id)

CallsSucceed ==
    ticks' > GraceTicks => \A j \in NewCalls : ops'[j].ok \/ NotFound(ops'[j])

StartTickConverge == StartTickUpTo({arg}, ConvergeTicks) /\ CallsSucceed

DeleteRecreateConverge == DeleteRecreate /\ CallsSucceed

DeleteAbsentCallConverge == DeleteAbsentCall /\ CallsSucceed

CreateStepConverge == CreateStep /\ CallsSucceed

\* the tunnel goroutines the scheduler runs: later ones stay at their first statement
ScheduledTasks == 2

Scheduled(t) == t <= ScheduledTasks

NextConverge ==
    \/ StartTickConverge
    \/ DeleteSkip
    \/ DeleteRecreateConverge
    \/ DeleteAbsentSend
    \/ DeleteAbsentCallConverge
    \/ CreateStepConverge
    \/ EmitStep
    \/ EndTick
    \/ DispatchConnect
    \/ DispatchDisconnect
    \/ \E t \in DOMAIN tasks : Scheduled(t) /\ TunnelConnnectStart(t)
    \/ \E t \in DOMAIN tasks : Scheduled(t) /\ TunnelConnnectFetch(t)
    \/ \E t \in DOMAIN tasks : Scheduled(t) /\ SessionConnectFails(t)
    \/ \E t \in DOMAIN tasks : Scheduled(t) /\ SessionConnected(t)
    \/ \E t \in DOMAIN tasks : Scheduled(t) /\ SessionEnds(t)

\* the ticker fires while the reconciler waits for it
TickDue == pc = "idle" /\ ~ctxDone /\ ticks < ConvergeTicks

ReconcilerStep ==
    \/ StartTickConverge
    \/ DeleteSkip
    \/ DeleteRecreateConverge
    \/ DeleteAbsentSend
    \/ DeleteAbsentCallConverge
    \/ CreateStepConverge
    \/ EmitStep
    \/ EndTick

\* the reconciler can take a step: it is blocked only while it waits for a tick that
\* is not due, or at a send on a full channel (lines 133 and 344)
ReconcilerReady ==
    \/ TickDue
    \/ pc \in {"create", "done"}
    \/ /\ pc = "delete"
       /\ \/ CheckSocketsToDeleteBranch(socketsFromApi[idx], localSocketsMap) # "absent"
          \/ AbsentSteps[sub] # "disconnect"
          \/ Len(connectChan) < ChanCap
    \/ /\ pc = "emit"
       /\ \/ IsSocketConnected(socketsToConnect[idx].SocketID)
          \/ Len(connectChan) < ChanCap

DispatcherStep == DispatchConnect \/ DispatchDisconnect

\* the dispatcher can take an event off the channel (line 146)
DispatcherReady == dispatcher = "running" /\ connectChan # << >>

\* weak fairness of the reconciler and of the dispatcher, with the enabling
\* conditions of their steps written out
FairReconciler == []<>(~ReconcilerReady) \/ []<><<ReconcilerStep>>_vars

FairDispatcher == []<>(~DispatcherReady) \/ []<><<DispatcherStep>>_vars

SpecConverge ==
    /\ InitConverge
    /\ [][NextConverge]_vars
    /\ FairReconciler
    /\ FairDispatcher

-----------------------------------------------------------------------------
(* An agent that starts over a control plane where cloud authentication of one of
   its sockets has been switched off *)

CloudAuthOffServer ==
    << [CreatedBy(ConnectorName, DiscoveryName, SocketConfigs[2], 1)
           EXCEPT !.CloudAuthEnabled = FALSE] >>

InitCloudAuth ==
    /\ server = CloudAuthOffServer
    /\ nextId = Len(server) + 1
    /\ AgentInit
    /\ FnIdle

SpecCloudAuth == InitCloudAuth /\ [][Next]_vars

-----------------------------------------------------------------------------
(* The command 'socket connect': the port rule, the mode switches and the call of
   ssh.SshConnect, on a socket the GET has fetched *)

\* the package variable socketType is the --type flag of 'socket create'; in a run of
\* 'socket connect' it holds that flag's default
socketType == "http"

ConnectInputs ==
    [SocketType : {"http", "ssh", "tls", "database"},
     port : {-1, 0, 1, 22, 8080},
     httpserver : BOOLEAN,
     localssh : BOOLEAN]

\* a port rule that accepts no local server in place of a port
PortNotSpecifiedAlways(socket, port, httpserver, localssh) == port < 1

\* lines 320-332
PortNotSpecified(socket, port, httpserver, localssh) ==
    IF port < 1
    THEN IF socket.SocketType = "http" THEN ~httpserver
         ELSE IF socket.SocketType = "ssh" THEN ~localssh
         ELSE TRUE
    ELSE FALSE

\* lines 372-374
HttpserverPassed(httpserver) ==
    IF socketType # "http" /\ httpserver THEN FALSE ELSE httpserver

\* lines 376-378
LocalsshPassed(socket, localssh) ==
    IF socket.SocketType # "ssh" /\ localssh THEN FALSE ELSE localssh

ConnectCheckPort ==
    /\ res = << >>
    /\ res' = <<[err |-> IF PortNotSpecified(arg, arg.port, arg.httpserver, arg.localssh)
                         THEN "error: port not specified" ELSE ""]>>
    /\ UNCHANGED <<program, arg>>

\* line 380
ConnectSshConnect ==
    /\ Len(res) = 1
    /\ res[1].err = ""
    /\ res' = Append(res, [port |-> arg.port,
                           httpserver |-> HttpserverPassed(arg.httpserver),
                           localssh |-> LocalsshPassed(arg, arg.localssh)])
    /\ UNCHANGED <<program, arg>>

SpecConnectCmd == InitFn(ConnectInputs) /\ [][ConnectCheckPort \/ ConnectSshConnect]_vars

-----------------------------------------------------------------------------
(* Properties *)

LiveEntry(id) == \E e \in registry : e[1] = id /\ ~tasks[e[2]].closed

C2_RecreateFeedsConnectSet ==
    (pc \in {"emit", "done"} /\ ~tickErr) =>
        \A j \in DOMAIN ops :
            (ops[j].op = "POST" /\ ops[j].why = "recreate" /\ ops[j].ok) =>
                \E k \in DOMAIN socketsToConnect :
                    socketsToConnect[k].SocketID = ops[j].id

\* C3: once the dispatcher has processed the disconnect event of a deleted socket,
\* the tunnel that was live for that socket_id is closed and is no longer in the registry.
C3_DisconnectTearsDown ==
    pc \in {"done", "idle"} =>
        \A t \in torn : tasks[t].closed /\ <<tasks[t].socket, t>> \notin registry

\* C4: every DELETE a tick issues for an owned server socket without a discovered
\* match comes after the disconnect event for that socket was put on the channel.
C4_DisconnectPrecedesDelete ==
    \A j \in DOMAIN ops :
        (ops[j].op = "DELETE" /\ ops[j].why = "absent") =>
            \E i \in 1..(j - 1) :
                /\ ops[i].op = "disconnect"
                /\ ops[i].id = ops[j].id
                /\ ops[i].key = ops[j].key

C4_Witness ==
    /\ \E j \in DOMAIN ops : ops[j].op = "DELETE" /\ ops[j].why = "absent" /\ ops[j].ok
    /\ \E j \in DOMAIN connectChan : connectChan[j].action = "disconnect"

\* C5: the POST of a recreate directly follows the successful DELETE of the server
\* socket with the same identity key, and a failed DELETE of a recreate is followed
\* by no POST in that tick.
C5_RecreateDeleteThenCreate ==
    \A j \in DOMAIN ops :
        /\ (ops[j].op = "POST" /\ ops[j].why = "recreate") =>
              /\ j > 1
              /\ ops[j - 1].op = "DELETE"
              /\ ops[j - 1].why = "recreate"
              /\ ops[j - 1].ok
              /\ ops[j - 1].key = ops[j].key
              /\ \E i \in DOMAIN socketsFromApi :
                    /\ socketsFromApi[i].SocketID = ops[j - 1].id
                    /\ Key(socketsFromApi[i].ConnectorData) = ops[j].key
        /\ (ops[j].op = "DELETE" /\ ops[j].why = "recreate" /\ ~ops[j].ok) =>
              \A i \in DOMAIN ops : i > j => ops[i].op # "POST"

C5_Witness ==
    \E j \in DOMAIN ops : ops[j].op = "POST" /\ ops[j].why = "recreate" /\ ops[j].ok

\* C6: a tick that sees the discovered ConnectorData of the previous, successful tick
\* and the control plane that tick left issues no POST and no DELETE.
C6_IdentityStability ==
    stable => \A j \in DOMAIN ops : ops[j].op \notin {"POST", "DELETE"}

\* C7: when a create, update or delete call fails in a tick, every discovered socket
\* with another identity key is still processed and reaches the to-connect set.
C7_ErrorsArePerSocket ==
    pc = "done" =>
        \A j \in DOMAIN ops :
            (~ops[j].ok /\ ops[j].op \in {"POST", "PUT", "DELETE"}) =>
                \A i \in DOMAIN discovered :
                    Key(discovered[i].ConnectorData) # ops[j].key =>
                        \E k \in DOMAIN socketsToConnect :
                            Key(socketsToConnect[k].ConnectorData) =
                                Key(discovered[i].ConnectorData)

\* C8: the connect loop sends a connect event for a to-connect socket exactly when
\* the registry has no entry for its socket_id or the entry reports closed, and a
\* tick that failed sends none.
C8_ConnectEmission ==
    /\ []((pc = "done" /\ tickErr) => \A j \in DOMAIN ops : ops[j].op # "connect")
    /\ [][(pc = "emit" /\ idx' = idx + 1) =>
            LET id == socketsToConnect[idx].SocketID
            IN  IF LiveEntry(id)
                THEN connectChan' = connectChan
                ELSE connectChan' = Append(connectChan, Event(id, id, "connect"))]_vars

\* the tunnel of a socket had ended before the tick, its registry entry reports
\* closed, and the tick sent a connect for it
C8_Witness ==
    /\ pc = "done"
    /\ ~tickErr
    /\ \E j \in DOMAIN ops :
          /\ ops[j].op = "connect"
          /\ ops[j].id \in lostAtStart
          /\ \E e \in registry :
                e[1] = ops[j].id /\ tasks[e[2]].closed /\ tasks[e[2]].pc = "returned"

\* C9: a successful tick emits connect for every socket whose tunnel had ended before
\* the tick, that is still on the control plane and whose key is still discovered.
C9_ReconnectAfterLoss ==
    (pc = "done" /\ ~tickErr) =>
        \A id \in lostAtStart :
            (/\ OnServer(server, id)
             /\ \E i \in DOMAIN socketsFromApi :
                   /\ socketsFromApi[i].SocketID = id
                   /\ Key(socketsFromApi[i].ConnectorData) \in DOMAIN MapByKey(discovered))
            => \E j \in DOMAIN ops : ops[j].op = "connect" /\ ops[j].id = id

\* C10: once TunnelConnnect has returned, the registry no longer holds the entry it
\* added for its socket_id.
C10_TerminalReleasesEntry ==
    \A t \in DOMAIN tasks :
        tasks[t].pc = "returned" => <<tasks[t].socket, t>> \notin registry

\* C11: the dispatcher applies a disconnect event for a socket only after every
\* connect task it spawned earlier for that socket has registered its session.
C11_DisconnectAfterRegistration ==
    [][(/\ connectChan # << >>
        /\ Head(connectChan).action = "disconnect"
        /\ connectChan' = Tail(connectChan))
       => \A t \in TasksOf(Head(connectChan).socket) : tasks[t].pc # "spawned"]_vars

\* C13 as stated: within one tick no control-plane DELETE is issued after a POST.
C13_DeletesBeforeCreates ==
    \A i \in DOMAIN ops : \A j \in DOMAIN ops :
        (i < j /\ ops[i].op = "POST") => ops[j].op # "DELETE"

\* C13: within one tick every control-plane DELETE is issued before every POST of the
\* create pass; the POST of a recreate belongs to the delete pass (it directly follows
\* its own DELETE) and may precede the DELETEs of server sockets examined after it.
C13_DeletePassBeforeCreatePass ==
    \A i \in DOMAIN ops : \A j \in DOMAIN ops :
        (i < j /\ ops[i].op = "POST" /\ ops[i].why = "create") => ops[j].op # "DELETE"

\* a tick deleted a server socket and then created another one
C13_Witness ==
    \E i \in DOMAIN ops : \E j \in DOMAIN ops :
        /\ i < j
        /\ ops[i].op = "DELETE" /\ ops[i].ok
        /\ ops[j].op = "POST" /\ ops[j].why = "create" /\ ops[j].ok

\* scenario S1: the first tick, over an empty control plane, discovers the one socket
\* {name "db_1", port 3306, type ""}
S1 ==
    /\ ticks = 1
    /\ Len(discovered) = 1
    /\ discovered[1].TargetPort = 3306

S1ConnectorData ==
    [Name |-> <<"d", "b", "-", "1">>, Connector |-> ConnectorName, Type |-> "",
     Port |-> 3306, TargetHostname |-> "localhost", PolicyGroup |-> "", Ec2Tag |-> "",
     InstanceId |-> "", PluginName |-> DiscoveryName, ManagedBy |-> Principal]

\* C15: in scenario S1 a tick that succeeds issues exactly one POST, carrying name
\* "db-1", socket_type "database", upstream_type "mysql" and the tags of its
\* ConnectorData, then sends one connect event for the returned socket_id; once that
\* tunnel is up the registry holds exactly one entry, keyed by that socket_id.
C15_CreateAndConnect ==
    /\ (S1 /\ pc = "done" /\ ~tickErr) =>
          /\ Len(ops) = 3
          /\ ops[2].op = "POST" /\ ops[2].ok /\ ops[2].id = SocketIdOf(1)
          /\ ops[3].op = "connect" /\ ops[3].id = SocketIdOf(1)
          /\ Len(server) = 1
          /\ server[1].SocketID = SocketIdOf(1)
          /\ server[1].Name = <<"d", "b", "-", "1">>
          /\ server[1].SocketType = "database"
          /\ server[1].UpstreamType = "mysql"
          /\ server[1].Tags = Tags(S1ConnectorData)
          /\ BuildConnectorDataByTags(server[1]).ConnectorData = S1ConnectorData
    /\ S1 => \A t \in DOMAIN tasks :
                tasks[t].pc = "live" => registry = {<<SocketIdOf(1), t>>}

C15_Witness ==
    /\ S1
    /\ pc = "done"
    /\ ~tickErr
    /\ \E t \in DOMAIN tasks : tasks[t].pc = "live" /\ <<SocketIdOf(1), t>> \in registry

\* the tracked fields of CheckAndUpdateSocket other than upstream_http_hostname agree
OnlyHostnameDiffers(apiSocket, localSocket) ==
    /\ apiSocket.UpstreamHttpHostname # localSocket.UpstreamHttpHostname
    /\ apiSocket.AllowedEmailAddresses = localSocket.AllowedEmailAddresses
    /\ apiSocket.AllowedEmailDomains = localSocket.AllowedEmailDomains
    /\ apiSocket.PolicyNames = localSocket.PolicyNames
    /\ apiSocket.UpstreamUsername = localSocket.UpstreamUsername
    /\ apiSocket.UpstreamType = localSocket.UpstreamType
    /\ apiSocket.ConnectorAuthenticationEnabled = localSocket.ConnectorAuthenticationEnabled

\* the discovered sockets of scenario S4: matched by key with a server socket of equal
\* ConnectorData, only upstream_http_hostname differing
S4(i) ==
    LET d   == discovered[i]
        key == Key(d.ConnectorData)
    IN  /\ key \in DOMAIN socketApiMap
        /\ socketApiMap[key].ConnectorData = d.ConnectorData
        /\ OnlyHostnameDiffers(socketApiMap[key], d)

OpsOn(id, kinds) == {j \in DOMAIN ops : ops[j].op \in kinds /\ ops[j].id = id}

\* C16: a tick that succeeds issues, for a discovered socket in scenario S4, exactly
\* one PUT to the socket_id of its server match and no DELETE and no POST for it.
C16_UpdateWithoutRecreate ==
    (pc = "done" /\ ~tickErr) =>
        \A i \in DOMAIN discovered :
            S4(i) =>
                LET id == socketApiMap[Key(discovered[i].ConnectorData)].SocketID
                IN  /\ Cardinality(OpsOn(id, {"PUT"})) = 1
                    /\ OpsOn(id, {"DELETE", "POST"}) = {}
                    /\ \A j \in DOMAIN ops :
                          ops[j].key = Key(discovered[i].ConnectorData) =>
                              ops[j].op \notin {"DELETE", "POST"}

C16_Witness ==
    /\ pc = "done"
    /\ ~tickErr
    /\ \E i \in DOMAIN discovered :
          /\ S4(i)
          /\ \E j \in DOMAIN ops : ops[j].op = "PUT" /\ ops[j].ok

\* the reconciler is at a send on the event channel (core.go:343 or core.go:132)
AtSend ==
    \/ /\ pc = "delete"
       /\ CheckSocketsToDeleteBranch(socketsFromApi[idx], localSocketsMap) = "absent"
       /\ AbsentSteps[sub] = "disconnect"
    \/ /\ pc = "emit"
       /\ ~IsSocketConnected(socketsToConnect[idx].SocketID)

\* C12: once the dispatcher has returned on cancellation, no tick waits at a send on
\* a full event channel (nothing would ever read from it again).
C12_NoSendBlockedForever ==
    ~(dispatcher = "returned" /\ AtSend /\ Len(connectChan) = ChanCap)

KeysDistinct(list) ==
    \A i \in DOMAIN list : \A j \in DOMAIN list :
        Key(list[i].ConnectorData) = Key(list[j].ConnectorData) => i = j

\* C14: a tick that sees the discovered sockets of the previous, successful tick (with
\* distinct identity keys) and the control plane that tick left issues no POST, no
\* PUT and no DELETE.
C14_Idempotent ==
    (repeated /\ KeysDistinct(discovered)) =>
        \A j \in DOMAIN ops : ops[j].op \notin {"POST", "PUT", "DELETE"}

\* the delete pass of the current tick has run to its end
DeletePassDone == pc \in {"create", "emit", "done"} /\ ~tickErr

Unmatched(apiSocket) ==
    \A i \in DOMAIN discovered :
        Key(discovered[i].ConnectorData) # Key(apiSocket.ConnectorData)

Owned(apiSocket) ==
    /\ apiSocket.ConnectorData.Connector = ConnectorName
    /\ apiSocket.ConnectorData.PluginName = DiscoveryName

\* C18: once the delete pass has run, a server socket without a discovered match has
\* had a DELETE issued exactly if its ConnectorData names the configured connector and
\* the active discovery plugin.
C18_DeleteRule ==
    DeletePassDone =>
        \A i \in DOMAIN socketsFromApi :
            Unmatched(socketsFromApi[i]) =>
                (OpsOn(socketsFromApi[i].SocketID, {"DELETE"}) # {}
                    <=> Owned(socketsFromApi[i]))

\* one delete pass met an unmatched socket of another plugin, which it left alone,
\* and an unmatched socket of its own, which it deleted
C18_Witness ==
    /\ DeletePassDone
    /\ \E i \in DOMAIN socketsFromApi :
          /\ Unmatched(socketsFromApi[i])
          /\ socketsFromApi[i].ConnectorData.Connector = ConnectorName
          /\ socketsFromApi[i].ConnectorData.PluginName = OtherDiscovery
          /\ OnServer(server, socketsFromApi[i].SocketID)
    /\ \E i \in DOMAIN socketsFromApi :
          /\ Unmatched(socketsFromApi[i])
          /\ Owned(socketsFromApi[i])
          /\ ~OnServer(server, socketsFromApi[i].SocketID)

\* the server sockets whose ConnectorData key is empty
UnownedSockets ==
    {server[i] : i \in {k \in DOMAIN server :
                          Key(BuildConnectorDataByTags(server[k]).ConnectorData) = << >>}}

\* C19: a server socket with an empty ConnectorData key is never the subject of a
\* control-plane call or of a connect or disconnect event, and stays on the control
\* plane as it is.
C19_UnownedIgnored ==
    /\ [](\A u \in UnownedSockets :
            /\ \A j \in DOMAIN ops : ops[j].id # u.SocketID
            /\ \A j \in DOMAIN connectChan : connectChan[j].socket # u.SocketID
            /\ \A j \in DOMAIN socketsToConnect : socketsToConnect[j].SocketID # u.SocketID
            /\ TasksOf(u.SocketID) = {})
    /\ [][\A u \in UnownedSockets : \E i \in DOMAIN server' : server'[i] = u]_vars

\* a tick has run its delete and create passes over a control plane that holds a
\* socket without tags
C19_Witness ==
    /\ pc = "done"
    /\ ~tickErr
    /\ UnownedSockets # {}
    /\ \E j \in DOMAIN ops : ops[j].op = "DELETE" /\ ops[j].ok
    /\ \E j \in DOMAIN ops : ops[j].op = "connect"

\* the same strings, each as often, in any order
SameStrings(a, b) ==
    /\ Len(a) = Len(b)
    /\ \A x \in {a[i] : i \in DOMAIN a} \cup {b[i] : i \in DOMAIN b} :
          Cardinality({i \in DOMAIN a : a[i] = x}) = Cardinality({i \in DOMAIN b : b[i] = x})

TrackedFieldsDiverge(a, l) ==
    \/ ~SameStrings(a.AllowedEmailAddresses, l.AllowedEmailAddresses)
    \/ ~SameStrings(a.AllowedEmailDomains, l.AllowedEmailDomains)
    \/ /\ (a.PolicyNames # << >> \/ l.PolicyNames # << >>)
       /\ ~SameStrings(a.PolicyNames, l.PolicyNames)
    \/ a.UpstreamHttpHostname # l.UpstreamHttpHostname
    \/ a.UpstreamUsername # l.UpstreamUsername
    \/ a.UpstreamType # l.UpstreamType
    \/ a.ConnectorAuthenticationEnabled # l.ConnectorAuthenticationEnabled

\* the tracked fields other than upstream_username agree
OnlyUsernameDiffers(a, l) ==
    /\ a.UpstreamUsername # l.UpstreamUsername
    /\ a.AllowedEmailAddresses = l.AllowedEmailAddresses
    /\ a.AllowedEmailDomains = l.AllowedEmailDomains
    /\ a.PolicyNames = l.PolicyNames
    /\ a.UpstreamHttpHostname = l.UpstreamHttpHostname
    /\ a.UpstreamType = l.UpstreamType
    /\ a.ConnectorAuthenticationEnabled = l.ConnectorAuthenticationEnabled

C20_TagsRoundTrip ==
    res # << >> => res[1] = arg

\* a ConnectorData with a port and without managed_by has been through the round trip
C20_Witness ==
    /\ res # << >>
    /\ arg.ManagedBy = ""
    /\ "managed_by" \notin DOMAIN Tags(arg)
    /\ arg.Port = 3306
    /\ arg.Name # << >>

\* C21: after SanitizeName the name has no '_', '.' or space: each of them has become
\* '-' and every other character is kept in its place; SanitizeName on a sanitised
\* name leaves it unchanged.
C21_SanitizeName ==
    /\ Len(res) >= 1 =>
          /\ Len(res[1]) = Len(arg)
          /\ \A i \in DOMAIN arg :
                res[1][i] = IF arg[i] \in {"_", ".", " "} THEN "-" ELSE arg[i]
          /\ \A i \in DOMAIN res[1] : res[1][i] \notin {"_", ".", " "}
    /\ Len(res) >= 2 => res[2] = res[1]

\* a name with '_', '.' and a space has been sanitised twice
C21_Witness ==
    /\ Len(res) = 2
    /\ {"_", ".", " "} \subseteq {arg[i] : i \in DOMAIN arg}

\* socket_type and upstream_type were both empty before the inference
Untyped == arg.SocketType = "" /\ arg.UpstreamType = ""

\* C22: for a socket with empty upstream_type and empty socket_type the inferred
\* upstream_type is mysql for port 3306, postgres for 5432, ssh for 22, http for 80
\* and https for 443, the last with socket_type http.
C22_InferenceTable ==
    (res # << >> /\ Untyped) =>
        /\ arg.TargetPort = 3306 => res[1].UpstreamType = "mysql"
        /\ arg.TargetPort = 5432 => res[1].UpstreamType = "postgres"
        /\ arg.TargetPort = 22 => res[1].UpstreamType = "ssh"
        /\ arg.TargetPort = 80 => res[1].UpstreamType = "http"
        /\ arg.TargetPort = 443 =>
              res[1].UpstreamType = "https" /\ res[1].SocketType = "http"

\* C22 as the code has it: for a socket with empty upstream_type and empty socket_type
\* the inference leaves (socket_type, upstream_type) = (database, mysql) for port 3306,
\* (database, postgres) for 5432, (ssh, http) for 22, (http, http) for 80,
\* (http, https) for 443, and ("", http) for any other port; nothing else changes.
C22_InferencePairs ==
    (res # << >> /\ Untyped) =>
        /\ <<res[1].SocketType, res[1].UpstreamType>> =
              CASE arg.TargetPort = 3306 -> <<"database", "mysql">>
                [] arg.TargetPort = 5432 -> <<"database", "postgres">>
                [] arg.TargetPort = 22 -> <<"ssh", "http">>
                [] arg.TargetPort = 80 -> <<"http", "http">>
                [] arg.TargetPort = 443 -> <<"http", "https">>
                [] OTHER -> <<"", "http">>
        /\ res[1] = [ZeroSocket EXCEPT !.SocketType = res[1].SocketType,
                                       !.UpstreamType = res[1].UpstreamType,
                                       !.TargetPort = arg.TargetPort]

\* the inference has run on an untyped socket with port 22
C22_Witness ==
    /\ res # << >>
    /\ Untyped
    /\ arg.TargetPort = 22
    /\ res[1].SocketType = "ssh"

\* C23: a socket whose socket_type is mysql or postgres leaves the inference with
\* socket_type database and upstream_type equal to its former socket_type, whatever
\* its upstream_type was before.
C23_DatabasePromotion ==
    (res # << >> /\ arg.SocketType \in {"mysql", "postgres"}) =>
        /\ res[1].SocketType = "database"
        /\ res[1].UpstreamType = arg.SocketType

NameSet(a) == {a[i] : i \in DOMAIN a}

Updated == \E j \in DOMAIN res[1].w.ops : res[1].w.ops[j].op = "PUT"

\* C24: the update check treats two policy-name lists as equal exactly when they hold
\* the same set of names, in any order, and two empty lists never trigger an update.
C24_PolicySetEquality ==
    res # << >> =>
        /\ ~Updated <=> NameSet(arg.api.PolicyNames) = NameSet(arg.local.PolicyNames)
        /\ (arg.api.PolicyNames = << >> /\ arg.local.PolicyNames = << >>) => ~Updated

\* C24 as the code has it: the update check treats two policy-name lists as equal
\* exactly when they hold the same names, each as often, in any order (equal once
\* sorted), and two empty lists never trigger an update.
C24_PolicySortedEquality ==
    res # << >> =>
        /\ ~Updated <=> SameStrings(arg.api.PolicyNames, arg.local.PolicyNames)
        /\ (arg.api.PolicyNames = << >> /\ arg.local.PolicyNames = << >>) => ~Updated

\* the check has found two lists of two names in different orders equal
C24_Witness ==
    /\ res # << >>
    /\ ~Updated
    /\ arg.api.PolicyNames = <<"p", "q">>
    /\ arg.local.PolicyNames = <<"q", "p">>

\* the registry has an entry for id whose handle is not closed
OpenEntry(id) == \E e \in registry : e[1] = id /\ ~tasks[e[2]].closed

\* the connect loop of HandleUpdates evaluates IsSocketConnected for one socket
EvaluatesIsSocketConnected == pc = "emit" /\ idx' = idx + 1

\* C25: IsSocketConnected(id) is true exactly when the registry has an entry for id
\* whose handle is not closed, and evaluating it adds no registry entry, removes none
\* and changes no handle: a closed handle stays in the registry.
C25_RegistryLiveness ==
    /\ [](\A id \in {SocketIdOf(n) : n \in 1..nextId} \cup {e[1] : e \in registry} :
            IsSocketConnected(id) <=> OpenEntry(id))
    /\ [][EvaluatesIsSocketConnected =>
            /\ registry' = registry
            /\ tasks' = tasks
            /\ (connectChan' # connectChan) <=> ~OpenEntry(socketsToConnect[idx].SocketID)]_vars

\* the handle registered for a socket was closed when the tick began and no connect
\* task of the socket has run since; the tick has sent a connect for the socket, which
\* the dispatcher has yet to read, and the closed handle is still registered
C25_Witness ==
    /\ pc = "done"
    /\ \E e \in registry :
          /\ e[1] \in lostAtStart
          /\ tasks[e[2]].closed
          /\ ~IsSocketConnected(e[1])
          /\ \E j \in DOMAIN ops : ops[j].op = "connect" /\ ops[j].id = e[1]
          /\ Cardinality({j \in DOMAIN ops : ops[j].op = "connect" /\ ops[j].id = e[1]})
                = Cardinality({j \in DOMAIN connectChan :
                                  /\ connectChan[j].action = "connect"
                                  /\ connectChan[j].socket = e[1]})

Did(run, step) == \E i \in DOMAIN run.steps : run.steps[i] = step

\* C26: a discovery run for which SkipRun is true calls no Find and publishes no
\* socket list; any other run waits WaitSeconds before Find, except the first run,
\* which does not wait.
C26_TickGating ==
    \A r \in DOMAIN res.runs :
        LET run == res.runs[r]
        IN  /\ run.skip => ~Did(run, "Find") /\ ~Did(run, "send") /\ run.slept = 0
            /\ ~run.skip =>
                  /\ Did(run, "Find")
                  /\ r = 1 => ~Did(run, "Sleep") /\ run.slept = 0
                  /\ r > 1 => Did(run, "Sleep") /\ run.slept = arg.WaitSeconds

\* the re-fetched socket of task t had connector authentication enabled and the
\* organization's mtls_certificate was absent or did not parse
BadCertificate(t) == tasks[t].cert \in {"absent", "garbage"}

\* C27: when the socket re-fetched by TunnelConnnect has connector_auth_enabled and
\* the organization has no mtls_certificate, or one that does not parse, the agent
\* terminates: the task never connects a session, and reconciler, dispatcher and every
\* other connect task stop for good.
C27_ConfigurationErrorFatal ==
    /\ [](\A t \in DOMAIN tasks :
            BadCertificate(t) =>
                /\ tasks[t].pc = "fatal"
                /\ ~tasks[t].closed
                /\ pc = "exited"
                /\ dispatcher = "exited"
                /\ \A u \in DOMAIN tasks : tasks[u].pc \in {"fatal", "exited", "returned"})
    /\ [][~\E t \in DOMAIN tasks : BadCertificate(t)]_vars

\* a certificate that does not parse has ended the agent while the tunnel of another
\* socket was up
C27_Witness ==
    \E t, u \in DOMAIN tasks :
        /\ tasks[t].pc = "fatal"
        /\ tasks[t].cert = "garbage"
        /\ GetSocket(server, tasks[t].socket).ConnectorAuthenticationEnabled
        /\ tasks[u].pc = "exited"
        /\ <<tasks[u].socket, u>> \in registry

\* the number of failed probes at the end of the window
FailedInARow(last) ==
    IF \A i \in DOMAIN last : last[i] # "alive" THEN Len(last)
    ELSE Len(last) - (CHOOSE i \in DOMAIN last :
                         /\ last[i] = "alive"
                         /\ \A j \in DOMAIN last : j > i => last[j] # "alive")

\* C28: the keepalive watcher closes the client exactly when 4 consecutive probes have
\* failed (by timeout or by error); a successful reply sets the counter to zero, so
\* fewer than 4 failures in a row never close the client.
C28_KeepaliveFailureCount ==
    /\ res.state = "closed" <=> FailedInARow(res.last) = 4
    /\ FailedInARow(res.last) < 4 => res.n = FailedInARow(res.last)
    /\ (res.last # << >> /\ res.last[Len(res.last)] = "alive") => res.n = 0

\* the client has been closed on a link that never stalled, later than four probes
\* take (so a reply had reset the counter), one of the failures an error and one a
\* timeout
C28_Witness ==
    /\ res.state = "closed"
    /\ arg.stallAt = NoStall
    /\ res.now > max * TickerPeriod + ProbeDeadline
    /\ \E i, j \in DOMAIN res.last : res.last[i] = "error" /\ res.last[j] = "timeout"

\* the link has stalled and the watcher has closed the client
ClosedAfterStall == res.state = "closed" /\ Stalled(res.now)

\* C29: on a link that stalls, with a probe every 10 s and a deadline of 5 s for each,
\* the session terminates within 40 s of the stall.
C29_KeepaliveBound40 ==
    ClosedAfterStall => res.now - arg.stallAt <= 40

\* C29 with the bound the code keeps: on a link that stalls the watcher closes the
\* client, and it does so within 45 s of the stall (four periods of 10 s and the 5 s
\* deadline of the last probe).
C29_KeepaliveBound45 ==
    /\ [](ClosedAfterStall => res.now - arg.stallAt <= 4 * TickerPeriod + ProbeDeadline)
    /\ [](arg.stallAt # NoStall => <>(res.state \in {"closed", "returned"}))

\* the client was closed more than 40 s after the stall
C29_Witness ==
    /\ ClosedAfterStall
    /\ res.now - arg.stallAt > 40
    /\ res.n = max

\* C30: once a tick has issued DELETE for a socket_id, by a plain delete or by the
\* delete of a recreate, no later PUT of that tick addresses that socket_id and no
\* connect event the tick emits afterwards carries it.
C30_NoRequestToDeletedSocket ==
    \A i, j \in DOMAIN ops :
        (i < j /\ ops[i].op = "DELETE" /\ ops[j].op \in {"PUT", "connect"}) =>
            ops[j].id # ops[i].id

\* C31: TunnelConnnect never replaces a registry entry whose session is still live, so
\* every live tunnel session is the session the registry holds for its socket_id, also
\* when two connect events for one socket_id are dispatched.
C31_NoOrphanedLiveSession ==
    /\ [](\A t \in DOMAIN tasks :
            tasks[t].pc = "live" => <<tasks[t].socket, t>> \in registry)
    /\ [][\A e \in registry :
            (tasks[e[2]].pc = "live" /\ tasks'[e[2]].pc = "live") => e \in registry']_vars

\* the identity key the tags of a server socket give
ServerKey(i) == Key(BootstrapApi(server[i]).ConnectorData)

\* C32: starting from a control plane without a socket of this connector, after any
\* sequence of ticks the control plane holds at most one socket per identity key, also
\* when two discovered sockets get the same key.
C32_OneSocketPerKey ==
    \A i, j \in DOMAIN server :
        (ServerKey(i) # << >> /\ ServerKey(i) = ServerKey(j)) => i = j

\* the server sockets of another connector or of another plugin
ForeignSockets ==
    {server[i] : i \in {k \in DOMAIN server :
        LET c == BuildConnectorDataByTags(server[k]).ConnectorData
        IN  c.Connector # ConnectorName \/ c.PluginName # DiscoveryName}}

\* C33: a server socket whose ConnectorData connector is not the configured connector
\* name, or whose plugin_name is not the active plugin's name, is never deleted,
\* recreated or updated by a tick, and no connect or disconnect event is emitted for it.
C33_ForeignUntouched ==
    /\ [](\A u \in ForeignSockets :
            /\ \A j \in DOMAIN ops : ops[j].id # u.SocketID
            /\ \A j \in DOMAIN connectChan : connectChan[j].socket # u.SocketID
            /\ \A j \in DOMAIN socketsToConnect : socketsToConnect[j].SocketID # u.SocketID
            /\ TasksOf(u.SocketID) = {})
    /\ [][\A u \in ForeignSockets : \E i \in DOMAIN server' : server'[i] = u]_vars

DiscoveredKeys == {Key(BootstrapLocal(Find(arg)[i]).ConnectorData) : i \in DOMAIN arg}

Converged ==
    /\ \A k \in DiscoveredKeys : \E i \in DOMAIN server : ServerKey(i) = k
    /\ \A i \in DOMAIN server :
           Owned(BootstrapApi(server[i])) => ServerKey(i) \in DiscoveredKeys

\* C34: when discovery returns the same sockets on every tick, control-plane calls
\* eventually succeed and ticks are scheduled fairly, the control plane eventually
\* holds a socket for every discovered identity key and no socket of this connector
\* and plugin that discovery does not return, and stays so.
C34_EventualConvergence == <>[]Converged

C34_Witness ==
    /\ ticks = ConvergeTicks
    /\ pc = "idle"
    /\ arg # << >>
    /\ Converged
    /\ \A i \in DOMAIN server : server[i].SocketID \notin {StaleServer[j].SocketID : j \in DOMAIN StaleServer}
    /\ nextId > Len(StaleServer) + 1

InventoryFailed == ops # << >> /\ ops[1].op = "GET" /\ ~ops[1].ok

\* C35: a tick whose inventory fetch (GetSockets) fails issues no create, update or
\* delete and emits no connect or disconnect event, and the failing fetch leaves the
\* control plane, the event channel and the tunnel registry as they were.
C35_InventoryFailureNoEffect ==
    /\ [](InventoryFailed => Len(ops) = 1 /\ pc = "done" /\ tickErr /\ socketsToConnect = << >>)
    /\ [][(~InventoryFailed /\ InventoryFailed') =>
              UNCHANGED <<server, nextId, connectChan, registry, tasks>>]_vars
    /\ [][(InventoryFailed /\ pc' = "idle") =>
              UNCHANGED <<server, nextId, connectChan, registry, tasks>>]_vars

C35_Witness ==
    /\ InventoryFailed
    /\ ticks = 2
    /\ server # << >>
    /\ \E e \in registry : tasks[e[2]].pc = "live"
    /\ \E i \in DOMAIN discovered : \A j \in DOMAIN server :
           ServerKey(j) # Key(discovered[i].ConnectorData)

Written(id) == \E j \in DOMAIN ops : ops[j].op \in {"POST", "PUT"} /\ ops[j].ok /\ ops[j].id = id

\* C36: every socket the reconciler has written to the control plane, by POST of a
\* discovered socket or by PUT on update, has cloud_auth_enabled = true.
C36_CloudAuthAlwaysOn ==
    \A i \in DOMAIN server : Written(server[i].SocketID) => server[i].CloudAuthEnabled

\* a PUT has rewritten the socket whose cloud authentication was off, and a POST has
\* created another one
C36_Witness ==
    /\ \E j \in DOMAIN ops : ops[j].op = "PUT" /\ ops[j].ok /\ ops[j].id = CloudAuthOffServer[1].SocketID
    /\ \E j \in DOMAIN ops : ops[j].op = "POST" /\ ops[j].ok
    /\ \A i \in DOMAIN server : server[i].CloudAuthEnabled

\* C37: SetupTypeAndUpstreamTypeByPortOrTags changes neither socket_type nor
\* upstream_type of a socket whose upstream_type is not empty, and for every
\* (socket_type, upstream_type, target_port) a second application leaves the socket
\* as the first one left it.
C37_InferenceKeepsExplicit ==
    /\ (Len(res) >= 1 /\ arg.UpstreamType # "") =>
          /\ res[1].SocketType = arg.SocketType
          /\ res[1].UpstreamType = arg.UpstreamType
    /\ Len(res) = 2 => res[2] = res[1]

\* the first application has promoted an untyped mysql socket, the second has run
C37_Witness ==
    /\ Len(res) = 2
    /\ arg.UpstreamType = ""
    /\ arg.SocketType = "mysql"
    /\ res[1].SocketType = "database"
    /\ res[2].UpstreamType = "mysql"

LocalServerFor(a) ==
    \/ a.SocketType = "http" /\ a.httpserver
    \/ a.SocketType = "ssh" /\ a.localssh

\* C38: 'socket connect' with port < 1 fails with "port not specified" and starts no
\* tunnel, unless the fetched socket has type http and --httpserver is set, or has
\* type ssh and --sshserver is set; a run that has failed never starts a tunnel.
C38_PortRule ==
    /\ (res # << >> /\ arg.port < 1) =>
          (res[1].err = "error: port not specified" <=> ~LocalServerFor(arg))
    /\ (res # << >> /\ arg.port >= 1) => res[1].err = ""
    /\ Len(res) = 2 => res[1].err = ""

\* without a port, an http socket with --httpserver has started its tunnel
C38_Witness ==
    /\ Len(res) = 2
    /\ arg.port = 0
    /\ arg.SocketType = "http"
    /\ arg.httpserver
    /\ ~arg.localssh

\* without a port and without a fitting local server the command has failed
C38_WitnessFailed ==
    /\ Len(res) = 1
    /\ res[1].err = "error: port not specified"
    /\ arg.SocketType = "ssh"
    /\ arg.httpserver
    /\ ~arg.localssh

\* C39: 'socket connect' passes local-HTTP-server mode to the tunnel session only when
\* the fetched socket's type is http and local-SSH-server mode only when it is ssh: for
\* any other socket type the requested mode is switched off before connecting.
C39_ModesFollowType ==
    Len(res) = 2 =>
        /\ res[2].httpserver => arg.SocketType = "http"
        /\ res[2].localssh => arg.SocketType = "ssh"

====
